---- MODULE Spec2Model ----
(***************************************************************************)
(* Log_masking: the override merge script (merge_overrides_script.py) and  *)
(* the field-sensitivity classifier (blacklist_generator.py).              *)
(*                                                                         *)
(* Strings are TLA+ strings; a character is a string of length one.  JSON  *)
(* objects are functions whose domain is the set of keys present, JSON     *)
(* lists are sequences.  A file is a record [kind, value]: kind "absent",  *)
(* "invalid" (not JSON), "nondict" (JSON, but not an object) or "json".    *)
(***************************************************************************)
EXTENDS Integers, Sequences, FiniteSets, Bags, TLC

VARIABLES
    \* merge_overrides_script.py: the two files, the backups it leaves, the
    \* wall clock (seconds), the value of the last call and the calls made
    overrides_file, patterns_file, backups, now, result, runs,
    \* blacklist_generator.py: the fields of EnhancedTelecomBlacklistGenerator
    developer_overrides, payload_blacklist, headers_blacklist,
    exact_match_blacklisted, value_based_blacklisted, safe_fields,
    excluded_fields,
    \* the start-up of the generator: the step __init__ is at, the calls of
    \* load_patterns, the pattern sections it loaded, self.compiled_patterns
    pc, loads, loaded, compiled_patterns,
    \* the properties file generate_properties writes
    properties_file,
    \* admin_app_at/app.py, process_accounts_batch: the accounts submitted,
    \* the state of each account's future, the rows of state_changes, the
    \* results counted, the futures collected, the state of the call
    accounts, work, state_changes, results, collected, batch_status,
    \* github_secret_dismiss.py, dismiss_alerts_from_urls: the URLs given,
    \* the position of the loop, the two counters, the PATCH requests sent
    urls, idx, successful, failed, requests_made,
    \* solr_monitor.py: the rows of the tables query_results and comparisons,
    \* and the calls of the notification callback
    query_results, comparisons, notifications,
    \* admin_app_at/app.py, RTB: the committed rows of rtb_runs and
    \* rtb_accounts, the check_and_run requests in progress, the comparison
    \* threads, and what a reader of a run has seen
    rtb_runs, rtb_accounts, requests, rtb_threads, reader

mergeVars == <<overrides_file, patterns_file, backups, now, result, runs>>

genVars == <<developer_overrides, payload_blacklist, headers_blacklist,
             exact_match_blacklisted, value_based_blacklisted, safe_fields,
             excluded_fields>>

startVars == <<pc, loads, loaded, compiled_patterns>>

vars == <<overrides_file, patterns_file, backups, now, result, runs,
          developer_overrides, payload_blacklist, headers_blacklist,
          exact_match_blacklisted, value_based_blacklisted, safe_fields,
          excluded_fields, pc, loads, loaded, compiled_patterns,
          properties_file,
          accounts, work, state_changes, results, collected, batch_status,
          urls, idx, successful, failed, requests_made,
          query_results, comparisons, notifications,
          rtb_runs, rtb_accounts, requests, rtb_threads, reader>>

solrVars == <<query_results, comparisons, notifications>>

rtbVars == <<rtb_runs, rtb_accounts, requests, rtb_threads, reader>>

batchVars ==
    <<accounts, work, state_changes, results, collected, batch_status>>

dismissVars == <<urls, idx, successful, failed, requests_made>>

\* what the merge script leaves alone, what analyze_field does, and what
\* the start-up of the generator does
outsideMerge ==
    <<genVars, startVars, properties_file, batchVars, dismissVars, solrVars,
      rtbVars>>

outsideClassify ==
    <<mergeVars, startVars, properties_file, batchVars, dismissVars,
      solrVars, rtbVars>>

outsideStartup ==
    <<properties_file, batchVars, dismissVars, solrVars, rtbVars>>

----------------------------------------------------------------------------
(* Bounds of the model *)

\* merge_overrides calls in one behaviour
MaxRuns == 2

\* seconds the wall clock advances
MaxClock == 1

\* length of a list a developer writes into the override file
MaxListLen == 2

\* executions of monitor_query
MaxChecks == 2

\* concurrent requests of /api/rtb/check_and_run
MaxRequests == 2

Requests == 1..MaxRequests

\* accounts of one uploaded file
MaxAccounts == 3

\* URLs of one call of dismiss_alerts_from_urls
MaxUrls == 3

\* analyze_field calls that leave a record before generate_properties
MaxAnalysed == 2

\* analyze_field calls that leave a record in one behaviour
MaxFields == 1

----------------------------------------------------------------------------
(* Python str and list helpers *)

Min(a, b) == IF a < b THEN a ELSE b

Ch(s, i) == SubSeq(s, i, i)

Range(seq) == {seq[i] : i \in 1..Len(seq)}

UpperChars == <<"A","B","C","D","E","F","G","H","I","J","K","L","M",
                "N","O","P","Q","R","S","T","U","V","W","X","Y","Z">>

LowerChars == <<"a","b","c","d","e","f","g","h","i","j","k","l","m",
                "n","o","p","q","r","s","t","u","v","w","x","y","z">>

Digits == {"0","1","2","3","4","5","6","7","8","9"}

Upper == Range(UpperChars)

Letters == Range(UpperChars) \cup Range(LowerChars)

\* \s of a Python regex, and the characters str.strip() removes
Whitespace == {" ", "\t", "\n", "\r", "\f"}

\* \w of a Python regex
WordChars == Letters \cup Digits \cup {"_"}

LowerCh(c) ==
    IF c \in Upper
    THEN LowerChars[CHOOSE i \in 1..26 : UpperChars[i] = c]
    ELSE c

\* str.lower()
RECURSIVE Lower(_)
Lower(s) == IF s = "" THEN "" ELSE LowerCh(Head(s)) \o Lower(Tail(s))

\* str.startswith / str.endswith / the `in` operator on strings
StartsWith(s, p) == Len(p) <= Len(s) /\ SubSeq(s, 1, Len(p)) = p

EndsWith(s, p) ==
    Len(p) <= Len(s) /\ SubSeq(s, Len(s) - Len(p) + 1, Len(s)) = p

Contains(s, p) ==
    \E i \in 1..(Len(s) - Len(p) + 1) : SubSeq(s, i, i + Len(p) - 1) = p

\* s[n:]
From(s, n) == SubSeq(s, n + 1, Len(s))

\* str.lstrip('_')
RECURSIVE LStripUnderscore(_)
LStripUnderscore(s) ==
    IF s # "" /\ Head(s) = "_" THEN LStripUnderscore(Tail(s)) ELSE s

\* str.strip()
RECURSIVE LStrip(_)
LStrip(s) == IF s # "" /\ Head(s) \in Whitespace THEN LStrip(Tail(s)) ELSE s

RECURSIVE RStrip(_)
RStrip(s) ==
    IF s # "" /\ Ch(s, Len(s)) \in Whitespace
    THEN RStrip(SubSeq(s, 1, Len(s) - 1))
    ELSE s

Strip(s) == RStrip(LStrip(s))

\* the last index of '.' in s, 0 when there is none
LastDot(s) ==
    IF \E i \in 1..Len(s) : Ch(s, i) = "."
    THEN CHOOSE i \in 1..Len(s) :
            Ch(s, i) = "." /\ \A j \in (i + 1)..Len(s) : Ch(s, j) # "."
    ELSE 0

\* dict.get(key, default)
Get(d, k, default) == IF k \in DOMAIN d THEN d[k] ELSE default

\* list(dict.fromkeys(seq)): first occurrences, in order
RECURSIVE Dedup(_)
Dedup(seq) ==
    IF seq = <<>> THEN <<>>
    ELSE LET init == Dedup(SubSeq(seq, 1, Len(seq) - 1))
             last == seq[Len(seq)]
         IN  IF last \in Range(init) THEN init ELSE Append(init, last)

\* seq[:n]
Take(seq, n) == SubSeq(seq, 1, Min(n, Len(seq)))

----------------------------------------------------------------------------
(* Regular expressions.  Every pattern of the program is an alternation of *)
(* concatenations of quantified character classes: an alternative is a     *)
(* sequence of items [cls, lo, hi], hi < 0 for an open quantifier.         *)

Item(cls, lo, hi) == [cls |-> cls, lo |-> lo, hi |-> hi]

\* cls{lo,}
AtLeast(cls, lo) == Item(cls, lo, -1)

One(cls) == Item(cls, 1, 1)

Opt(cls) == Item(cls, 0, 1)

Rep(cls, n) == Item(cls, n, n)

\* the alternative `alt`, from item k on, matches s from position p on;
\* anchored at the end of s when `toEnd`
RECURSIVE MatchFrom(_, _, _, _, _)
MatchFrom(alt, k, s, p, toEnd) ==
    IF k > Len(alt)
    THEN (~toEnd) \/ p = Len(s) + 1
    ELSE \E n \in alt[k].lo..(IF alt[k].hi < 0 THEN Len(s) - p + 1
                               ELSE Min(alt[k].hi, Len(s) - p + 1)) :
            /\ \A i \in p..(p + n - 1) : Ch(s, i) \in alt[k].cls
            /\ MatchFrom(alt, k + 1, s, p + n, toEnd)

\* re.match of ^alt1$|^alt2$|...
FullMatch(alts, s) == \E a \in alts : MatchFrom(a, 1, s, 1, TRUE)

\* re.match of ^alt (no $): a prefix
PrefixMatch(alts, s) == \E a \in alts : MatchFrom(a, 1, s, 1, FALSE)

\* re.search of an unanchored pattern
Search(alts, s) ==
    \E a \in alts : \E p \in 1..(Len(s) + 1) : MatchFrom(a, 1, s, p, FALSE)

\* \b at the gap before position p of s
Boundary(s, p) ==
    LET before == p > 1 /\ Ch(s, p - 1) \in WordChars
        after  == p <= Len(s) /\ Ch(s, p) \in WordChars
    IN  before # after

\* re.search of \b(?:kw1|kw2|...)\b, IGNORECASE
WordSearch(keywords, s) ==
    LET t == Lower(s)
    IN  \E kw \in keywords :
            \E p \in 1..(Len(t) - Len(kw) + 1) :
                /\ SubSeq(t, p, p + Len(kw) - 1) = Lower(kw)
                /\ Boundary(t, p)
                /\ Boundary(t, p + Len(kw))

----------------------------------------------------------------------------
(* merge_overrides_script.py *)

\* the names a developer may put on a list, in sorted() order
NameOrder == <<"email", "status">>

Names == Range(NameOrder)

\* set(list)
ToSet(list) == Range(list)

\* sorted(list(S))
Sorted(S) == SelectSeq(NameOrder, LAMBDA n : n \in S)

Absent == [kind |-> "absent"]

Invalid == [kind |-> "invalid"]

NonDict == [kind |-> "nondict"]

Json(v) == [kind |-> "json", value |-> v]

\* the file name passed as overrides_file
OverridesFileName == "developer_overrides.json"

\* set(d.get('manual_blacklist', [])) and set(d.get('manual_whitelist', []))
BlacklistOf(d) == ToSet(Get(d, "manual_blacklist", <<>>))

WhitelistOf(d) == ToSet(Get(d, "manual_whitelist", <<>>))

\* patterns.get('developer_overrides', {})
CurrentOverrides(patterns) == Get(patterns, "developer_overrides", <<>>)

combined_blacklist(current_blacklist, new_blacklist) ==
    current_blacklist \cup new_blacklist

combined_whitelist(current_whitelist, new_whitelist) ==
    current_whitelist \cup new_whitelist

\* a merge that forgets the precedence of the whitelist
final_blacklist_without_precedence(current_bl, current_wl, new_bl, new_wl) ==
    combined_blacklist(current_bl, new_bl)

\* a merge that removes only the names the override file whitelists
final_blacklist_minus_new_only(current_bl, current_wl, new_bl, new_wl) ==
    combined_blacklist(current_bl, new_bl) \ new_wl

\* a merge that removes only the names the store whitelisted already
final_blacklist_minus_current_only(current_bl, current_wl, new_bl, new_wl) ==
    combined_blacklist(current_bl, new_bl) \ current_wl

final_blacklist(current_bl, current_wl, new_bl, new_wl) ==
    combined_blacklist(current_bl, new_bl)
        \ combined_whitelist(current_wl, new_wl)

\* a merge that keeps only the names the override file whitelists
final_whitelist_of_new_only(current_wl, new_wl) == new_wl

final_whitelist(current_wl, new_wl) == combined_whitelist(current_wl, new_wl)

\* the developer_overrides object written into the pattern store
MergedOverrides(patterns, overrides) ==
    LET current_overrides == CurrentOverrides(patterns)
        current_blacklist == BlacklistOf(current_overrides)
        current_whitelist == WhitelistOf(current_overrides)
        new_blacklist == BlacklistOf(overrides)
        new_whitelist == WhitelistOf(overrides)
    IN  [manual_blacklist |->
             Sorted(final_blacklist(current_blacklist, current_whitelist,
                                    new_blacklist, new_whitelist)),
         manual_whitelist |->
             Sorted(final_whitelist(current_whitelist, new_whitelist)),
         last_updated     |-> now,
         merged_from      |-> OverridesFileName]

\* patterns['developer_overrides'] = ...
WithOverrides(patterns, ov) ==
    [k \in DOMAIN patterns \cup {"developer_overrides"} |->
        IF k = "developer_overrides" THEN ov ELSE patterns[k]]

\* the backup file named after the current second
WithBackup(b, t, content) ==
    [u \in DOMAIN b \cup {t} |-> IF u = t THEN content ELSE b[u]]

\* a failing run that has written a backup file
MergeFails_with_backup ==
    /\ result' = "False"
    /\ backups' = WithBackup(backups, now, patterns_file)
    /\ UNCHANGED <<overrides_file, patterns_file>>

\* a failing run that removes the override file all the same
MergeFails_removing_overrides ==
    /\ result' = "False"
    /\ overrides_file' = Absent
    /\ UNCHANGED <<patterns_file, backups>>

\* a failing run that has opened the pattern store for writing
MergeFails_truncating_store ==
    /\ result' = "False"
    /\ patterns_file' = Invalid
    /\ UNCHANGED <<overrides_file, backups>>

MergeFails ==
    /\ result' = "False"
    /\ UNCHANGED <<overrides_file, patterns_file, backups>>

merge_overrides ==
    /\ runs < MaxRuns
    /\ runs' = runs + 1
    /\ IF overrides_file.kind = "absent" \/ patterns_file.kind = "absent"
       THEN MergeFails
       ELSE IF overrides_file.kind # "json"
       \* json.load raises, or overrides.get does on a value that is no object
       THEN MergeFails
       ELSE IF patterns_file.kind = "invalid"
       THEN MergeFails
       ELSE /\ backups' = WithBackup(backups, now, patterns_file)
            /\ IF patterns_file.kind = "nondict"
               \* patterns.get raises after the backup was written
               THEN /\ result' = "False"
                    /\ UNCHANGED <<overrides_file, patterns_file>>
               ELSE /\ patterns_file' =
                          Json(WithOverrides(patterns_file.value,
                                 MergedOverrides(patterns_file.value,
                                                 overrides_file.value)))
                    /\ overrides_file' = Absent
                    /\ result' = "True"
    /\ UNCHANGED <<now>>
    /\ UNCHANGED outsideMerge

\* the lists a developer may write, duplicates and any order included
NameLists == UNION {[1..n -> Names] : n \in 0..MaxListLen}

\* the objects a developer may write: either key may be missing
OverrideObjects ==
    {[manual_blacklist |-> bl, manual_whitelist |-> wl] :
        bl \in NameLists, wl \in NameLists}
    \cup {[manual_blacklist |-> bl] : bl \in NameLists}
    \cup {[manual_whitelist |-> wl] : wl \in NameLists}

\* the override contents, one for every pair of sets of names
OverrideContents ==
    {[manual_blacklist |-> Sorted(bl), manual_whitelist |-> Sorted(wl)] :
        bl \in SUBSET Names, wl \in SUBSET Names}

\* a developer saves an override file where none, or a broken one, is
WriteOverrides ==
    /\ runs < MaxRuns
    /\ overrides_file.kind # "json"
    /\ \E f \in {Invalid, NonDict} \cup {Json(o) : o \in OverrideObjects} :
          overrides_file' = f
    /\ UNCHANGED <<patterns_file, backups, now, result, runs>>
    /\ UNCHANGED outsideMerge

\* a second passes
Tick ==
    /\ now < MaxClock
    /\ now' = now + 1
    /\ UNCHANGED <<overrides_file, patterns_file, backups, result, runs>>
    /\ UNCHANGED outsideMerge

\* the lists the generator leaves in a store: list(set), in any order
StoredLists == {l \in NameLists : Cardinality(Range(l)) = Len(l)}

\* the pattern stores found on disk: without developer_overrides, or with
\* the lists the generator wrote, which may share names
InitialStores ==
    {Absent, Invalid, NonDict, Json([config |-> "default"])}
    \cup {Json([config |-> "default",
                developer_overrides |->
                    [manual_blacklist |-> bl, manual_whitelist |-> wl]]) :
            bl \in StoredLists, wl \in StoredLists}

GenIdle ==
    /\ developer_overrides =
           [manual_blacklist |-> {}, manual_whitelist |-> {}]
    /\ payload_blacklist = {}
    /\ headers_blacklist = {}
    /\ exact_match_blacklisted = <<>>
    /\ value_based_blacklisted = <<>>
    /\ safe_fields = <<>>
    /\ excluded_fields = <<>>

\* no batch of accounts was submitted
BatchIdle ==
    /\ accounts = <<>>
    /\ work = <<>>
    /\ state_changes = <<>>
    /\ results = [success |-> 0, failed |-> 0]
    /\ collected = 0
    /\ batch_status = "none"

\* no list of alert URLs was given
DismissIdle ==
    /\ urls = <<>>
    /\ idx = 1
    /\ successful = 0
    /\ failed = 0
    /\ requests_made = <<>>

\* neither file of the merge script exists and it was never called
MergeIdle ==
    /\ overrides_file = Absent
    /\ patterns_file = Absent
    /\ backups = <<>>
    /\ now = 0
    /\ result = "none"
    /\ runs = 0

\* the monitor's database is empty
SolrIdle ==
    /\ query_results = <<>>
    /\ comparisons = <<>>
    /\ notifications = <<>>

\* no RTB run exists and no request is in progress
RtbIdle ==
    /\ rtb_runs = {}
    /\ rtb_accounts = EmptyBag
    /\ requests = [r \in Requests |-> [pc |-> "idle"]]
    /\ rtb_threads = {}
    /\ reader = [pc |-> "idle"]

OthersIdle ==
    /\ properties_file = Absent
    /\ BatchIdle
    /\ DismissIdle
    /\ SolrIdle
    /\ RtbIdle

\* the pattern sections of a generator that has loaded no store
NotLoaded == [config |-> "none", value_patterns |-> <<>>]

\* no generator has been started
NotStarted ==
    /\ pc = "none"
    /\ loads = 0
    /\ loaded = NotLoaded
    /\ compiled_patterns = <<>>

InitMerge ==
    /\ overrides_file = Absent
    /\ patterns_file \in InitialStores
    /\ backups = <<>>
    /\ now = 0
    /\ result = "none"
    /\ runs = 0
    /\ GenIdle
    /\ NotStarted
    /\ OthersIdle

NextMerge == merge_overrides \/ WriteOverrides \/ Tick

SpecMerge == InitMerge /\ [][NextMerge]_vars

\* the override sets held by a pattern store file
StoredBlacklist(file) ==
    IF file.kind = "json" THEN BlacklistOf(CurrentOverrides(file.value)) ELSE {}

StoredWhitelist(file) ==
    IF file.kind = "json" THEN WhitelistOf(CurrentOverrides(file.value)) ELSE {}

FileBlacklist(file) ==
    IF file.kind = "json" THEN BlacklistOf(file.value) ELSE {}

FileWhitelist(file) ==
    IF file.kind = "json" THEN WhitelistOf(file.value) ELSE {}

\* a step that is a successful merge_overrides call
MergeSucceeds == runs' = runs + 1 /\ result' = "True"

----------------------------------------------------------------------------
(* blacklist_generator.py: the default pattern store                       *)
(* (create_enhanced_patterns_file), loaded by load_patterns                *)

\* config['entity_prefixes'], in list order
entity_prefixes ==
    <<"customer", "cust", "c", "client", "cli", "subscriber", "sub", "s",
      "user", "usr", "u", "person", "pers", "p", "individual", "ind",
      "account", "acc", "acct", "a", "member", "mem", "m", "profile",
      "prof", "employee", "emp", "e", "staff", "operator", "op", "admin",
      "administrator", "contact", "cont", "owner", "holder", "cardholder",
      "ch", "primary", "prim", "secondary", "sec", "billing", "bill",
      "payment", "pay", "emergency", "emerg", "backup", "temp",
      "temporary", "alt", "alternate">>

name_fields ==
    {"name", "nm", "nme", "fullname", "full_name", "completename",
     "complete_name", "wholename", "whole_name", "entirename",
     "entire_name", "firstname", "first_name", "fname", "fnme", "fn",
     "f_name", "givenname", "given_name", "forename", "fore_name",
     "prename", "pre_name", "lastname", "last_name", "lname", "lnme",
     "ln", "l_name", "surname", "sur_name", "familyname", "family_name",
     "patronymic", "middlename", "middle_name", "mname", "mnme", "mn",
     "m_name", "middleinitial", "middle_initial", "mi", "displayname",
     "display_name", "nickname", "nick_name", "alias", "username",
     "user_name", "uname", "usrnm", "screenname", "screen_name", "handle",
     "moniker", "title", "suffix", "prefix", "maiden", "maidenname"}

email_fields ==
    {"email", "eml", "em", "e_mail", "emailaddr", "email_addr",
     "emailaddress", "email_address", "mail", "mailaddr", "mail_addr",
     "mailaddress", "mail_address", "contact", "contactemail",
     "contact_email", "emailid", "email_id", "mailid", "mail_id",
     "emailaccount", "email_account", "mailaccount", "mail_account",
     "workmail", "work_mail", "workemail", "work_email", "businessemail",
     "business_email", "personalemail", "personal_email", "homemail",
     "home_mail", "homeemail", "home_email", "primaryemail",
     "primary_email", "secondaryemail", "secondary_email",
     "alternateemail", "alternate_email", "backupemail", "backup_email"}

phone_fields ==
    {"phone", "phn", "phne", "ph", "fone", "tel", "telephone", "tele",
     "mobile", "mob", "cell", "cellular", "cellphone", "cell_phone",
     "mobilephone", "mobile_phone", "msisdn", "number", "num", "no",
     "phoneno", "phone_no", "phonenumber", "phone_number", "contactno",
     "contact_no", "contactnumber", "contact_number", "tel_no",
     "telephone_no", "homephone", "home_phone", "workphone", "work_phone",
     "businessphone", "business_phone", "officephone", "office_phone",
     "personalphone", "personal_phone", "mobilenum", "mobile_num",
     "cellnum", "cell_num", "phoneline", "phone_line", "line",
     "extension", "ext", "primaryphone", "primary_phone",
     "secondaryphone", "secondary_phone", "fax", "faxno", "fax_no"}

address_fields ==
    {"address", "addr", "add", "location", "loc", "place", "residence",
     "dwelling", "street", "st", "str", "streetaddress", "street_address",
     "streetaddr", "street_addr", "homeaddress", "home_address",
     "workaddress", "work_address", "businessaddress", "business_address",
     "mailingaddress", "mailing_address", "billingaddress",
     "billing_address", "shippingaddress", "shipping_address",
     "physicaladdress", "physical_address", "residentialaddress",
     "residential_address", "primaryaddress", "primary_address",
     "secondaryaddress", "secondary_address", "city", "town",
     "municipality", "locality", "county", "state", "province", "region",
     "country", "nation", "zip", "zipcode", "zip_code", "postal",
     "postalcode", "postal_code", "postcode", "post_code", "area",
     "areacode", "area_code", "district", "zone", "apartment", "apt",
     "unit", "suite", "ste", "floor", "building", "bldg"}

dob_fields ==
    {"dob", "dateofbirth", "date_of_birth", "birthdate", "birth_date",
     "birthday", "bday", "b_day", "birth", "born", "birthtime",
     "birth_time", "dateborn", "date_born", "db", "bd", "birthyear",
     "birth_year", "birthmonth", "birth_month", "birth_day", "dobirth",
     "do_birth", "nativity", "natal", "age", "yob", "year_of_birth"}

ssn_fields ==
    {"ssn", "socialsecurity", "social_security", "socialsecuritynumber",
     "social_security_number", "social", "taxid", "tax_id", "taxpayerid",
     "taxpayer_id", "tin", "ein", "nationalid", "national_id",
     "nationalnumber", "national_number", "citizenid", "citizen_id",
     "identityno", "identity_no", "identitynumber", "identity_number",
     "identification", "ident", "personalid", "personal_id", "personid",
     "person_id", "individualid", "individual_id", "govid", "gov_id",
     "governmentid", "government_id", "federalid", "federal_id"}

license_fields ==
    {"license", "licence", "driverlicense", "driver_license",
     "driverlicence", "driver_licence", "dl", "dln",
     "driverlicensenumber", "driver_license_number", "licensenum",
     "license_num", "drivinglicense", "driving_license", "drivingpermit",
     "driving_permit", "permit", "passport", "passportno", "passport_no",
     "passportnumber", "passport_number", "passportid", "passport_id",
     "visa", "visano", "visa_no", "visanumber", "visa_number"}

personal_fields ==
    {"subscriber", "customer", "cust", "personal", "individual", "person",
     "profile", "identity", "ident", "private", "confidential",
     "sensitive", "pii", "personalinfo", "personal_info"}

communication_fields ==
    {"call", "cll", "calling", "voice", "voicecall", "voice_call",
     "conversation", "conv", "sms", "message", "msg", "text",
     "textmessage", "text_message", "mms", "chat", "communication",
     "comm", "talk", "audio", "recording", "rec"}

usage_fields ==
    {"data", "usage", "consumed", "consumption", "volume", "bytes", "mb",
     "gb", "tb", "megabytes", "gigabytes", "terabytes", "kilobytes", "kb",
     "traffic", "bandwidth", "bw", "speed", "throughput", "transfer",
     "download", "upload", "stream", "streaming"}

network_fields ==
    {"network", "net", "nw", "cell", "cellular", "tower", "antenna",
     "signal", "coverage", "connection", "conn", "session", "sess",
     "bearer", "carrier", "operator", "provider", "imsi", "imei", "mcc",
     "mnc", "lac", "cgi", "cellid", "cell_id", "networkid", "network_id",
     "operatorid", "operator_id", "carrierid", "carrier_id", "providerid",
     "provider_id"}

location_fields ==
    {"location", "loc", "position", "pos", "coordinates", "coord",
     "coords", "gps", "latitude", "lat", "longitude", "lng", "lon",
     "geolocation", "geo", "geocode", "place", "whereabouts", "locale",
     "spot", "site", "point", "area", "zone", "region"}

service_fields ==
    {"service", "svc", "plan", "package", "subscription", "sub",
     "activation", "provision", "feature", "addon", "add_on", "option",
     "roaming", "international", "domestic"}

session_fields ==
    {"session", "sess", "duration", "time", "period", "start", "end",
     "begin", "finish", "timestamp", "starttime", "start_time", "endtime",
     "end_time", "calltime", "call_time"}

payment_fields ==
    {"payment", "pay", "billing", "bill", "invoice", "charge", "fee",
     "cost", "price", "amount", "amt", "total", "sum", "subtotal",
     "grandtotal", "grand_total", "balance", "bal", "credit", "debit",
     "debt", "owed", "due", "outstanding"}

financial_fields ==
    {"account", "acct", "financial", "finance", "money", "currency",
     "revenue", "income", "expense", "expenditure", "transaction",
     "trans", "purchase", "sale", "order", "receipt", "paymentid",
     "payment_id", "transactionid", "transaction_id", "reference", "ref",
     "confirmation", "conf", "approval", "auth", "authorization"}

card_fields ==
    {"card", "cc", "creditcard", "credit_card", "debitcard", "debit_card",
     "cardno", "card_no", "cardnumber", "card_number", "cardholder",
     "card_holder", "cardname", "card_name", "cardtype", "card_type",
     "cardissuer", "card_issuer", "paymentcard", "payment_card",
     "bankcard", "bank_card", "plasticcard", "plastic_card"}

support_fields ==
    {"ticket", "support", "help", "issue", "problem", "complaint",
     "feedback", "note", "comment", "remark", "observation", "report",
     "incident", "case", "request", "req"}

internal_fields ==
    {"internal", "int", "employee", "emp", "staff", "operator", "op",
     "admin", "administrator", "system", "sys", "config", "configuration",
     "setting", "settings", "parameter", "param"}

metrics_fields ==
    {"metric", "performance", "perf", "quality", "log", "audit",
     "monitor", "monitoring", "track", "tracking", "measure",
     "measurement", "stats", "statistics", "analytics", "kpi",
     "indicator", "score", "rating", "benchmark"}

card_number_fields ==
    {"card", "cc", "creditcard", "credit_card", "debitcard", "debit_card",
     "pan", "cardnumber", "card_number", "cardno", "card_no", "ccnumber",
     "cc_number", "accountnumber", "account_number", "number", "num", "no"}

security_code_fields ==
    {"cvv", "cvc", "cvn", "cid", "securitycode", "security_code",
     "verificationcode", "verification_code", "checkcode", "check_code",
     "csc", "cardcode", "card_code", "securitynumber", "security_number",
     "pin", "pincode", "pin_code"}

expiry_fields ==
    {"expiry", "expire", "expiration", "exp", "expirydate", "expiry_date",
     "expirationdate", "expiration_date", "validthru", "valid_thru",
     "validuntil", "valid_until", "goodthru", "good_thru"}

cardholder_fields ==
    {"cardholder", "card_holder", "holdername", "holder_name", "cardname",
     "card_name", "nameoncard", "name_on_card", "cardownername",
     "card_owner_name", "ownername", "owner_name"}

\* config['exact_keywords']: category -> the keyword lists of its subcategories
exact_keywords ==
    [spi |-> {name_fields, email_fields, phone_fields, address_fields, dob_fields, ssn_fields, license_fields, personal_fields},
     cpni |-> {communication_fields, usage_fields, network_fields, location_fields, service_fields, session_fields},
     rpi |-> {payment_fields, financial_fields, card_fields},
     cso |-> {support_fields, internal_fields, metrics_fields},
     pci |-> {card_number_fields, security_code_fields, expiry_fields, cardholder_fields}]

\* config['exclusions']
exclusions ==
    {"status", "code", "type", "version", "timestamp", "method",
     "protocol", "format", "encoding", "charset", "limit", "offset",
     "page", "size", "count", "total", "success", "error", "message",
     "description", "content-type", "user-agent", "accept", "host",
     "connection", "cache-control", "length", "max", "min", "uuid",
     "guid", "hash", "checksum", "signature", "result", "response",
     "request", "verified", "preferred", "enabled", "disabled", "active",
     "inactive", "valid", "invalid", "tenuretype", "tenure", "tier",
     "autopay", "autodebit", "paperless", "billcycle", "billlanguage",
     "language", "locale", "timezone", "currency", "region", "country",
     "position", "subtype", "subclass", "subcategory", "subgroup",
     "sublevel"}

\* config['pattern_mappings']
pattern_mappings ==
    [email |-> {"SPI"},
     phone |-> {"SPI"},
     credit_card |-> {"RPI", "PCI"},
     ssn |-> {"SPI"},
     date_standard |-> {"SPI"},
     date_text |-> {"SPI"},
     date_compact |-> {"SPI"},
     coordinates |-> {"CPNI"},
     currency |-> {"RPI"},
     imei |-> {"CPNI"},
     cvv |-> {"PCI"},
     ip |-> {"CSO"},
     name_pattern |-> {"SPI"},
     long_numeric_id |-> {"CONTEXTUAL"},
     alphanumeric_id |-> {"CONTEXTUAL"}]

\* value_patterns: character classes
EmailLocal == Letters \cup Digits \cup {".", "_", "%", "+", "-"}

EmailDomain == Letters \cup Digits \cup {".", "-"}

NonZeroDigits == Digits \ {"0"}

UpperAlnum == Upper \cup Digits

HexDigits == Digits \cup {"a","b","c","d","e","f","A","B","C","D","E","F"}

Months == {"Jan", "Feb", "Mar", "Apr", "May", "Jun",
           "Jul", "Aug", "Sep", "Oct", "Nov", "Dec"}

\* a letter under re.IGNORECASE
AnyCase(c) == {d \in Letters : LowerCh(d) = LowerCh(c)}

\* one month name, then \s+\d{1,2}\s+\d{4}; compiled with re.IGNORECASE
DateTextAlt(m) ==
    <<One(AnyCase(Ch(m, 1))), One(AnyCase(Ch(m, 2))), One(AnyCase(Ch(m, 3))),
      AtLeast(Whitespace, 1), Item(Digits, 1, 2), AtLeast(Whitespace, 1),
      Rep(Digits, 4)>>

\* -?\d+\.?\d*
CoordinateItems ==
    <<Opt({"-"}), AtLeast(Digits, 1), Opt({"."}), AtLeast(Digits, 0)>>

\* config['value_patterns']
value_patterns ==
    [email |->
        {<<AtLeast(EmailLocal, 1), One({"@"}), AtLeast(EmailDomain, 1),
           One({"."}), AtLeast(Letters, 2)>>},
     phone |->
        {<<Opt({"+"}), One(NonZeroDigits), Item(Digits, 1, 14)>>,
         <<One({"("}), Rep(Digits, 3), One({")"}), Opt(Whitespace),
           Rep(Digits, 3), One({"-"}), Rep(Digits, 4)>>,
         <<Item(Digits, 10, 15)>>},
     credit_card |->
        {<<Rep(Digits, 4), Opt(Whitespace \cup {"-"}),
           Rep(Digits, 4), Opt(Whitespace \cup {"-"}),
           Rep(Digits, 4), Opt(Whitespace \cup {"-"}), Rep(Digits, 4)>>},
     ssn |->
        {<<Rep(Digits, 3), One({"-"}), Rep(Digits, 2), One({"-"}),
           Rep(Digits, 4)>>,
         <<Rep(Digits, 9)>>},
     date_standard |->
        {<<Rep(Digits, 4), One({"-"}), Rep(Digits, 2), One({"-"}),
           Rep(Digits, 2)>>,
         <<Rep(Digits, 2), One({"/"}), Rep(Digits, 2), One({"/"}),
           Rep(Digits, 4)>>},
     date_text |-> {DateTextAlt(m) : m \in Months},
     date_compact |-> {<<Rep(Digits, 8)>>, <<Rep(Digits, 6)>>},
     coordinates |-> {CoordinateItems \o <<One({","})>> \o CoordinateItems},
     currency |->
        {<<Opt({"$"}), AtLeast(Digits, 1), Opt({"."}), Item(Digits, 0, 2)>>},
     imei |-> {<<Rep(Digits, 15)>>},
     cvv |-> {<<Item(Digits, 3, 4)>>},
     ip |->
        {<<Item(Digits, 1, 3), One({"."}), Item(Digits, 1, 3), One({"."}),
           Item(Digits, 1, 3), One({"."}), Item(Digits, 1, 3)>>},
     name_pattern |->
        {<<One(Upper), AtLeast(Range(LowerChars), 1), One({" "}),
           One(Upper), AtLeast(Range(LowerChars), 1)>>,
         <<One(Upper), AtLeast(Range(LowerChars), 2)>>},
     long_numeric_id |-> {<<Item(Digits, 6, 20)>>},
     alphanumeric_id |-> {<<Item(UpperAlnum, 6, 20)>>}]

\* the regular expressions of value_patterns as the pattern store holds them
value_pattern_sources ==
    [email |->
        "^[a-zA-Z0-9._%+-]+@[a-zA-Z0-9.-]+\\.[a-zA-Z]{2,}$",
     phone |->
        "^\\+?[1-9]\\d{1,14}$|^\\(\\d{3}\\)\\s?\\d{3}-\\d{4}$|^\\d{10,15}$",
     credit_card |->
        "^\\d{4}[\\s-]?\\d{4}[\\s-]?\\d{4}[\\s-]?\\d{4}$",
     ssn |->
        "^\\d{3}-\\d{2}-\\d{4}$|^\\d{9}$",
     date_standard |->
        "^\\d{4}-\\d{2}-\\d{2}$|^\\d{2}/\\d{2}/\\d{4}$",
     date_text |->
        "^(Jan|Feb|Mar|Apr|May|Jun|Jul|Aug|Sep|Oct|Nov|Dec)\\s+\\d{1,2}\\s+\\d{4}$",
     date_compact |->
        "^\\d{8}$|^\\d{6}$",
     coordinates |->
        "^-?\\d+\\.?\\d*,-?\\d+\\.?\\d*$",
     currency |->
        "^\\$?\\d+\\.?\\d{0,2}$",
     imei |->
        "^\\d{15}$",
     cvv |->
        "^\\d{3,4}$",
     ip |->
        "^\\d{1,3}\\.\\d{1,3}\\.\\d{1,3}\\.\\d{1,3}$",
     name_pattern |->
        "^[A-Z][a-z]+ [A-Z][a-z]+$|^[A-Z][a-z]{2,}$",
     long_numeric_id |->
        "^\\d{6,20}$",
     alphanumeric_id |->
        "^[A-Z0-9]{6,20}$"]

\* regular expressions re.compile rejects: a parenthesis left open, a
\* character set left open
malformed_sources ==
    [cvv |-> "^(\\d{3,4}$", email |-> "^[a-zA-Z0-9._%+-+@"]

\* re.compile(pattern_str) raises no re.error: outside the escapes and the
\* character sets every parenthesis is closed and closes one, every
\* character set is closed, no escape ends the pattern and no repetition
\* has nothing to repeat
WellFormed(pattern_str) ==
    LET n == Len(pattern_str)
        At(i) == Ch(pattern_str, i)
        Backslashes(i) ==
            Cardinality({j \in 1..(i - 1) :
                            \A m \in j..(i - 1) : At(m) = "\\"})
        Plain == {i \in 1..n : Backslashes(i) % 2 = 0}
        SetOpens == {i \in Plain : At(i) = "["}
        SetCloses == {i \in Plain : At(i) = "]"}
        InSet(i) ==
            \E j \in SetOpens :
                j < i /\ \A k \in SetCloses : ~(j < k /\ k < i)
        Structural == {i \in Plain : ~InSet(i)}
        Opens == {i \in Structural : At(i) = "("}
        Closes == {i \in Structural : At(i) = ")"}
    IN  /\ \A i \in Closes :
              Cardinality({j \in Opens : j < i})
                  >= Cardinality({j \in Closes : j <= i})
        /\ Cardinality(Opens) = Cardinality(Closes)
        /\ \A j \in SetOpens \cap Structural : \E k \in SetCloses : k > j
        /\ ~(n \in Plain /\ At(n) = "\\")
        /\ \A i \in Structural :
              At(i) \in {"*", "+"}
              => /\ i > 1
                 /\ ~((i - 1) \in Structural /\ At(i - 1) \in {"(", "|"})

\* re.compile on the regular expressions the pattern stores hold
Compiles ==
    [pattern_str \in
        {value_pattern_sources[n] : n \in DOMAIN value_pattern_sources}
        \cup {malformed_sources[n] : n \in DOMAIN malformed_sources} |->
        WellFormed(pattern_str)]

\* compile_patterns that keeps a pattern whose regular expression is
\* malformed
Compiled_without_check(patterns) == patterns

\* compile_patterns: the value patterns that compile, by name
Compiled(patterns) ==
    [pattern_name \in {n \in DOMAIN patterns : Compiles[patterns[n]]} |->
        patterns[pattern_name]]

\* compile_patterns: category -> subcategory keyword lists, each compiled
\* to \b(?:...)\b with re.IGNORECASE
compiled_exact_patterns == exact_keywords

\* Python's None
None == "None"

\* category.upper()
UpperCh(c) ==
    IF c \in Range(LowerChars)
    THEN UpperChars[CHOOSE i \in 1..26 : LowerChars[i] = c]
    ELSE c

RECURSIVE UpperOf(_)
UpperOf(s) == IF s = "" THEN "" ELSE UpperCh(Head(s)) \o UpperOf(Tail(s))

----------------------------------------------------------------------------
(* blacklist_generator.py: the classifier *)

extract_final_key(field_path) ==
    IF Contains(field_path, ".")
    THEN From(field_path, LastDot(field_path))
    ELSE field_path

\* a category that takes every other prefix for a request
get_field_category_of_any_prefix(field_path) ==
    IF StartsWith(field_path, "response.") THEN "response"
    ELSE IF StartsWith(field_path, "headers.") THEN "headers"
    ELSE "request"

get_field_category(field_path) ==
    IF StartsWith(field_path, "request.") THEN "request"
    ELSE IF StartsWith(field_path, "response.") THEN "response"
    ELSE IF StartsWith(field_path, "headers.") THEN "headers"
    ELSE "unknown"

\* the test of the loop body of extract_entity_and_field for one prefix
PrefixSplits(field_name, prefix) ==
    LET field_lower == Lower(field_name)
        prefix_lower == Lower(prefix)
        original_remaining == From(field_name, Len(prefix))
    IN  /\ StartsWith(field_lower, prefix_lower)
        /\ Len(field_lower) > Len(prefix_lower)
        /\ \/ original_remaining # "" /\ Head(original_remaining) \in Upper
           \/ StartsWith(original_remaining, "_")

\* (entity_prefix, field_name, is_compound): the first prefix that splits
extract_entity_and_field(field_name) ==
    LET hits == {i \in 1..Len(entity_prefixes) :
                    PrefixSplits(field_name, entity_prefixes[i])}
    IN  IF hits = {}
        THEN [entity_prefix |-> None, field_name |-> Lower(field_name),
              is_compound |-> FALSE]
        ELSE LET first == CHOOSE i \in hits : \A j \in hits : i <= j
                 prefix == entity_prefixes[first]
             IN  [entity_prefix |-> prefix,
                  field_name |->
                      Lower(LStripUnderscore(From(field_name, Len(prefix)))),
                  is_compound |-> TRUE]

sensitive_entities ==
    {"customer", "person", "user", "subscriber", "individual", "profile"}

\* some subcategory pattern of the category finds field_name
CategorySearch(category, field_name) ==
    \E keywords \in compiled_exact_patterns[category] :
        WordSearch(keywords, field_name)

\* the categories exact_keyword_match collects below the override checks
MatchedCategories(final_key) ==
    LET e == extract_entity_and_field(final_key)
    IN  {UpperOf(category) : category \in
            {c \in DOMAIN compiled_exact_patterns :
                \/ CategorySearch(c, e.field_name)
                \/ /\ e.is_compound
                   /\ ~CategorySearch(c, e.field_name)
                   /\ Lower(e.entity_prefix) \in sensitive_entities
                   /\ CategorySearch(c, e.field_name)}}

\* should_exclude comparing the key as written
should_exclude_case_sensitive(final_key) == final_key \in exclusions

should_exclude(final_key) == Lower(final_key) \in exclusions

sensitive_code_exceptions ==
    {"zipcode", "postalcode", "areacode", "countrycode", "regioncode",
     "securitycode", "verificationcode", "accesscode", "pincode",
     "activationcode", "confirmationcode", "passcode", "passwordcode",
     "authcode", "otpcode", "mfacode", "twofa", "lockcode"}

classification_suffixes ==
    <<"code", "type", "method", "format", "style", "mode", "kind",
      "category", "class", "classification", "scheme", "strategy",
      "variant", "option", "choice", "selection">>

business_code_patterns ==
    {"plan", "rate", "product", "service", "status", "error", "result",
     "response", "transaction", "campaign", "promotion", "offer",
     "subscription", "billing", "invoice", "payment"}

\* has_code_or_type_suffix with the suffix 'type' skipped as well
has_code_or_type_suffix_without_type(field_name) ==
    LET field_lower == Lower(field_name)
        sensitive ==
            \E exception \in sensitive_code_exceptions :
                Contains(field_lower, exception)
    IN  IF sensitive THEN FALSE
        ELSE IF EndsWith(field_lower, "code")
        THEN \E pattern \in business_code_patterns :
                Contains(field_lower, pattern) /\ ~sensitive
        ELSE \E i \in 3..Len(classification_suffixes) :
                EndsWith(field_lower, classification_suffixes[i])

has_code_or_type_suffix(field_name) ==
    LET field_lower == Lower(field_name)
        sensitive ==
            \E exception \in sensitive_code_exceptions :
                Contains(field_lower, exception)
    IN  IF sensitive THEN FALSE
        ELSE IF EndsWith(field_lower, "code")
        THEN \E pattern \in business_code_patterns :
                Contains(field_lower, pattern) /\ ~sensitive
        ELSE \E i \in 2..Len(classification_suffixes) :
                EndsWith(field_lower, classification_suffixes[i])

boolean_values ==
    {"true", "false", "yes", "no", "y", "n", "1", "0",
     "on", "off", "enabled", "disabled", "active", "inactive",
     "valid", "invalid"}

\* is_boolean_field without the test for an empty sample
is_boolean_field_of_any_sample(values) ==
    \A i \in 1..Len(values) : Lower(Strip(values[i])) \in boolean_values

is_boolean_field(values) ==
    /\ values # <<>>
    /\ \A i \in 1..Len(values) : Lower(Strip(values[i])) \in boolean_values

\* 8-4-4-4-12 hexadecimal digits
UuidItems ==
    <<Rep(HexDigits, 8), One({"-"}), Rep(HexDigits, 4), One({"-"}),
      Rep(HexDigits, 4), One({"-"}), Rep(HexDigits, 4), One({"-"}),
      Rep(HexDigits, 12)>>

uuid_patterns ==
    {UuidItems,
     <<Rep(HexDigits, 32)>>,
     <<Opt({"{"})>> \o UuidItems \o <<Opt({"}"})>>}

is_uuid_field(values) ==
    /\ values # <<>>
    /\ \A i \in 1..Len(values) : FullMatch(uuid_patterns, Strip(values[i]))

\* \d{4}-\d{2}-\d{2}
IsoDateItems ==
    <<Rep(Digits, 4), One({"-"}), Rep(Digits, 2), One({"-"}), Rep(Digits, 2)>>

\* \d{2}:\d{2}:\d{2}
ClockItems ==
    <<Rep(Digits, 2), One({":"}), Rep(Digits, 2), One({":"}), Rep(Digits, 2)>>

\* the patterns of has_datetime_values that are searched anywhere
datetime_patterns ==
    {IsoDateItems \o <<One({"T"})>> \o ClockItems,
     IsoDateItems \o <<AtLeast(Whitespace, 1)>> \o ClockItems,
     <<Rep(Digits, 2), One({"/"}), Rep(Digits, 2), One({"/"}), Rep(Digits, 4),
       AtLeast(Whitespace, 1), Item(Digits, 1, 2), One({":"}), Rep(Digits, 2)>>}

\* the patterns of has_datetime_values that start with ^
datetime_prefix_patterns ==
    {IsoDateItems \o <<One({"T"})>> \o ClockItems \o <<One({"Z"})>>,
     IsoDateItems \o <<One({"T"})>> \o ClockItems
        \o <<One({"+", "-"}), Rep(Digits, 2), One({":"}), Rep(Digits, 2)>>}

unix_timestamp_patterns == {<<Rep(Digits, 13)>>, <<AtLeast(Digits, 16)>>}

DigitOrder == <<"0","1","2","3","4","5","6","7","8","9">>

DigitValue(c) == (CHOOSE i \in 1..10 : DigitOrder[i] = c) - 1

\* a <= b for digit strings of one length
RECURSIVE DigitsLeq(_, _)
DigitsLeq(a, b) ==
    IF a = "" THEN TRUE
    ELSE IF Head(a) = Head(b) THEN DigitsLeq(Tail(a), Tail(b))
    ELSE DigitValue(Head(a)) < DigitValue(Head(b))

RECURSIVE StripZeros(_)
StripZeros(s) == IF s # "" /\ Head(s) = "0" THEN StripZeros(Tail(s)) ELSE s

\* 1577836800000 <= int(value_str) <= 1924991999999
InTimestampRange(value_str) ==
    LET n == StripZeros(value_str)
    IN  /\ Len(n) = Len("1577836800000")
        /\ DigitsLeq("1577836800000", n)
        /\ DigitsLeq(n, "1924991999999")

has_datetime_values(values) ==
    /\ values # <<>>
    /\ \E i \in 1..Len(Take(values, 3)) :
          LET value_str == Strip(values[i])
          IN  \/ Search(datetime_patterns, value_str)
              \/ PrefixMatch(datetime_prefix_patterns, value_str)
              \/ /\ FullMatch(unix_timestamp_patterns, value_str)
                 /\ InTimestampRange(value_str)

personal_date_keywords ==
    {"dob", "dateofbirth", "birthdate", "birthday", "bday", "birth", "born",
     "date_of_birth", "birth_date", "dateborn", "date_born"}

is_personal_date_field(field_name) ==
    LET field_lower == Lower(field_name)
        e == extract_entity_and_field(field_lower)
        fields_to_check ==
            IF e.is_compound THEN {field_lower, e.field_name}
            ELSE {field_lower}
    IN  \E field_to_check \in fields_to_check :
            \E keyword \in personal_date_keywords :
                Contains(field_to_check, keyword)

\* the pattern names one value matches in analyze_values
PatternsOfValue(value) ==
    LET value_str == Strip(value)
    IN  {pattern_name \in DOMAIN value_patterns :
            /\ FullMatch(value_patterns[pattern_name], value_str)
            /\ ~(StartsWith(pattern_name, "date_")
                 /\ has_datetime_values(<<value_str>>))}

\* the results of analyze_values for the patterns found
AnalysisOf(unique_values, patterns_found) ==
    LET categories ==
            UNION {pattern_mappings[p] :
                      p \in patterns_found \cap DOMAIN pattern_mappings}
    IN  [patterns_found |-> patterns_found,
         categories |-> categories,
         confidence |-> IF patterns_found # {} THEN "High" ELSE "Low",
         unique_values |-> unique_values]

\* analyze_values with every pattern of value_patterns compiled; none
\* without sample values
ValueAnalysis(values) ==
    LET unique_values == Dedup(Take(values, 5))
    IN  IF values # <<>>
        THEN AnalysisOf(unique_values,
                 UNION {PatternsOfValue(v) : v \in Range(unique_values)})
        ELSE AnalysisOf(<<>>, {})

----------------------------------------------------------------------------
(* The fields analysed.  The steps of analyze_field that read only the     *)
(* field path, or only the sample values, are computed once for the paths  *)
(* and samples below; analyze_field reads them from these tables.          *)

\* the final keys of the field paths analysed
FinalKeys ==
    {"email", "Email", "status", "Status", "statusCode", "couponCode",
     "zipCode", "zipcodeType", "cardType", "cvv", "accountAge",
     "birthDate", "userEmail", "customer_email"}

\* final keys analysed under every category
SharedKeys == {"email", "status", "accountAge"}

FieldPaths ==
    {"request." \o key : key \in FinalKeys}
    \cup {prefix \o key :
            prefix \in {"response.body.", "headers.", "query."},
            key \in SharedKeys}

\* the sample values of a field, as str() shows them
SampleValues ==
    {<<>>, <<"123">>, <<"200">>, <<"a@b.com">>,
     <<"true", "False">>, <<"2024-01-15T10:30:00Z">>,
     <<"123e4567-e89b-12d3-a456-426614174000">>}

PathFacts ==
    [field_path \in FieldPaths |->
        [final_key |-> extract_final_key(field_path),
         category |-> get_field_category(field_path)]]

KeyFacts ==
    [final_key \in {PathFacts[p].final_key : p \in FieldPaths} |->
        [lower |-> Lower(final_key),
         entity |-> extract_entity_and_field(final_key),
         matched |-> MatchedCategories(Lower(final_key)),
         should_exclude |-> should_exclude(final_key),
         has_code_or_type_suffix |-> has_code_or_type_suffix(final_key),
         is_personal_date_field |-> is_personal_date_field(final_key)]]

ValueFacts ==
    [values \in SampleValues |->
        [is_boolean_field |-> is_boolean_field(values),
         is_uuid_field |-> is_uuid_field(values),
         has_datetime_values |-> has_datetime_values(values),
         value_analysis |-> ValueAnalysis(values)]]

\* analyze_values: the patterns of self.compiled_patterns are tried, each
\* compiled from the regular expression value_patterns holds for its name
analyze_values(values) ==
    LET full == ValueFacts[values].value_analysis
    IN  AnalysisOf(full.unique_values,
                   full.patterns_found \cap DOMAIN compiled_patterns)

exact_keyword_match(field_path) ==
    LET final_key == KeyFacts[PathFacts[field_path].final_key].lower
    IN  IF final_key \in developer_overrides.manual_whitelist THEN {}
        ELSE IF final_key \in developer_overrides.manual_blacklist
        THEN {"DEVELOPER_MANUAL"}
        ELSE KeyFacts[PathFacts[field_path].final_key].matched

\* [str(v) for v in values[:5]] if values else []
ShownValues(values) == Take(values, 5)

\* a record of excluded_fields
ExcludedField(field_path, values, reason, match_type) ==
    [field_path |-> field_path,
     final_key |-> PathFacts[field_path].final_key,
     category |-> PathFacts[field_path].category,
     reason |-> reason,
     unique_values |-> ShownValues(values),
     match_type |-> match_type]

\* final_key in self.developer_overrides['manual_whitelist']
manual_whitelisted(final_key) ==
    final_key \in developer_overrides.manual_whitelist

\* final_key in self.developer_overrides['manual_blacklist']
developer_manual(final_key) ==
    final_key \in developer_overrides.manual_blacklist

\* the analysis_result of a manually blacklisted field
ManualResult(field_path, values) ==
    [field_path |-> field_path,
     final_key |-> PathFacts[field_path].final_key,
     category |-> PathFacts[field_path].category,
     blacklisted |-> TRUE,
     reasons |-> <<"Developer manually added to blacklist">>,
     categories_detected |-> {"DEVELOPER_MANUAL"},
     unique_values |-> ShownValues(values),
     confidence |-> "High",
     exact_match |-> "True",
     entity_prefix |-> None,
     key_based |-> TRUE,
     value_based |-> FALSE,
     developer_manual |-> TRUE,
     match_type |-> "exact_match"]

\* the reason appended for a key match
KeyReason(key_categories, is_compound) ==
    IF "DEVELOPER_MANUAL" \in key_categories
    THEN "Developer manually added to blacklist"
    ELSE IF is_compound THEN "EXACT MATCH: entity + field"
    ELSE "EXACT MATCH: exactly matches sensitive keywords"

\* categories_detected without the value categories
categories_detected_of_key_only(key_categories, value_categories) ==
    key_categories

\* list(set(categories_detected)) of the key and the value categories
categories_detected(key_categories, value_categories) ==
    key_categories \cup value_categories

\* the analysis_result of a field that passed the overrides and exclusions
StandardResult(field_path, values) ==
    LET final_key == PathFacts[field_path].final_key
        e == KeyFacts[final_key].entity
        key_categories == exact_keyword_match(field_path)
        value_analysis == analyze_values(values)
        key_based == key_categories # {}
        value_based == value_analysis.categories # {}
        categories == categories_detected(key_categories,
                                          value_analysis.categories)
        blacklisted == categories # {}
    IN  [field_path |-> field_path,
         final_key |-> final_key,
         category |-> PathFacts[field_path].category,
         blacklisted |-> blacklisted,
         reasons |->
            (IF key_based
             THEN <<KeyReason(key_categories, e.is_compound)>> ELSE <<>>)
            \o (IF value_based THEN <<"VALUE MATCH">> ELSE <<>>)
            \o (IF blacklisted THEN <<>>
                ELSE <<"No exact matches or sensitive patterns detected">>),
         categories_detected |-> categories,
         unique_values |->
            IF values # <<>> THEN value_analysis.unique_values
            ELSE ShownValues(values),
         confidence |->
            IF value_based THEN value_analysis.confidence ELSE "Low",
         exact_match |-> IF key_based THEN "True" ELSE None,
         entity_prefix |-> e.entity_prefix,
         is_compound |-> e.is_compound,
         clean_field |-> e.field_name,
         key_based |-> key_based,
         value_based |-> value_based,
         developer_manual |-> FALSE,
         match_type |->
            IF ~blacklisted THEN "safe"
            ELSE IF key_based THEN "exact_match"
            ELSE "value_based"]

\* self.excluded_fields.append(...); return
Exclude(record) ==
    /\ excluded_fields' = Append(excluded_fields, record)
    /\ UNCHANGED <<developer_overrides, payload_blacklist, headers_blacklist,
                   exact_match_blacklisted, value_based_blacklisted,
                   safe_fields>>

\* the blacklist of the field's category gains final_key
AddToBlacklist(category, final_key) ==
    IF category = "headers"
    THEN /\ headers_blacklist' = headers_blacklist \cup {final_key}
         /\ UNCHANGED payload_blacklist
    ELSE IF category \in {"request", "response"}
    THEN /\ payload_blacklist' = payload_blacklist \cup {final_key}
         /\ UNCHANGED headers_blacklist
    ELSE UNCHANGED <<payload_blacklist, headers_blacklist>>

\* the tail of analyze_field: file the analysis_result
Record(r) ==
    IF r.blacklisted
    THEN /\ AddToBlacklist(r.category, r.final_key)
         /\ IF r.key_based
            THEN /\ exact_match_blacklisted' =
                       Append(exact_match_blacklisted, r)
                 /\ UNCHANGED value_based_blacklisted
            ELSE /\ value_based_blacklisted' =
                       Append(value_based_blacklisted, r)
                 /\ UNCHANGED exact_match_blacklisted
         /\ UNCHANGED <<developer_overrides, safe_fields, excluded_fields>>
    ELSE /\ safe_fields' = Append(safe_fields, r)
         /\ UNCHANGED <<developer_overrides, payload_blacklist,
                        headers_blacklist, exact_match_blacklisted,
                        value_based_blacklisted, excluded_fields>>

\* the records left by the analyze_field calls so far
Analysed ==
    Len(exact_match_blacklisted) + Len(value_based_blacklisted)
        + Len(safe_fields) + Len(excluded_fields)

analyze_field(field_path, values) ==
    LET final_key == PathFacts[field_path].final_key
        category == PathFacts[field_path].category
        key == KeyFacts[final_key]
        sample == ValueFacts[values]
    IN  /\ IF category = "unknown"
           THEN UNCHANGED genVars
           ELSE IF manual_whitelisted(final_key)
           THEN Exclude(ExcludedField(field_path, values,
                    "Developer manually excluded this field",
                    "manual_whitelist"))
           ELSE IF developer_manual(final_key)
           THEN /\ AddToBlacklist(category, final_key)
                /\ exact_match_blacklisted' =
                      Append(exact_match_blacklisted,
                             ManualResult(field_path, values))
                /\ UNCHANGED <<developer_overrides, value_based_blacklisted,
                               safe_fields, excluded_fields>>
           ELSE IF key.should_exclude
           THEN Exclude(ExcludedField(field_path, values,
                    "Excluded - Common non-sensitive field", "exclusion"))
           ELSE IF key.has_code_or_type_suffix
           THEN Exclude(ExcludedField(field_path, values,
                    "Excluded - Code/Type field", "exclusion"))
           ELSE IF sample.is_boolean_field
           THEN Exclude(ExcludedField(field_path, values,
                    "Excluded - Boolean field", "exclusion"))
           ELSE IF sample.is_uuid_field
           THEN Exclude(ExcludedField(field_path, values,
                    "Excluded - UUID field", "exclusion"))
           ELSE IF /\ values # <<>>
                   /\ sample.has_datetime_values
                   /\ ~key.is_personal_date_field
           THEN Exclude(ExcludedField(field_path, values,
                    "Excluded - Contains timestamps/datetime", "exclusion"))
           ELSE Record(StandardResult(field_path, values))
        /\ UNCHANGED outsideClassify

----------------------------------------------------------------------------
(* The start-up of the generator: __init__ *)

\* list(S): the names of a set in any order
ListsOf(S) == {l \in StoredLists : Range(l) = S}

\* a default store written without the developer overrides
DefaultStore_without_overrides(manual_blacklist, manual_whitelist) ==
    [config |-> "default",
     value_patterns |-> value_pattern_sources,
     developer_overrides |->
        [manual_blacklist |-> <<>>, manual_whitelist |-> <<>>]]

\* the enhanced_config create_enhanced_patterns_file writes
DefaultStore(manual_blacklist, manual_whitelist) ==
    [config |-> "default",
     value_patterns |-> value_pattern_sources,
     developer_overrides |->
        [manual_blacklist |-> manual_blacklist,
         manual_whitelist |-> manual_whitelist]]

\* the sections load_patterns reads with config.get
Loaded(config) ==
    [config |-> Get(config, "config", "none"),
     value_patterns |-> Get(config, "value_patterns", <<>>)]

\* self.developer_overrides updated with the lists of the pattern store
WithStoredOverrides(config) ==
    LET pattern_overrides == CurrentOverrides(config)
    IN  [manual_blacklist |->
            developer_overrides.manual_blacklist
                \cup BlacklistOf(pattern_overrides),
         manual_whitelist |->
            developer_overrides.manual_whitelist
                \cup WhitelistOf(pattern_overrides)]

\* merge_overrides_to_patterns: the lists read replace those of the store
merge_overrides_to_patterns(read) ==
    IF patterns_file.kind = "json"
    THEN \E bl \in ListsOf(read.manual_blacklist),
            wl \in ListsOf(read.manual_whitelist) :
            patterns_file' =
                Json(WithOverrides(patterns_file.value,
                        [manual_blacklist |-> bl, manual_whitelist |-> wl]))
    \* no store, or json.load or the assignment raises and is caught
    ELSE UNCHANGED patterns_file

load_developer_overrides ==
    /\ pc = "load_developer_overrides"
    /\ pc' = "load_patterns"
    /\ IF overrides_file.kind = "json"
       THEN LET read ==
                    [manual_blacklist |-> BlacklistOf(overrides_file.value),
                     manual_whitelist |-> WhitelistOf(overrides_file.value)]
            IN  /\ developer_overrides' = read
                /\ merge_overrides_to_patterns(read)
       ELSE IF overrides_file.kind = "absent"
       THEN UNCHANGED <<developer_overrides, patterns_file>>
       \* json.load or overrides.get raises and is caught
       ELSE /\ developer_overrides' =
                  [manual_blacklist |-> {}, manual_whitelist |-> {}]
            /\ UNCHANGED patterns_file
    /\ UNCHANGED <<overrides_file, backups, now, result, runs>>
    /\ UNCHANGED <<payload_blacklist, headers_blacklist,
                   exact_match_blacklisted, value_based_blacklisted,
                   safe_fields, excluded_fields>>
    /\ UNCHANGED <<loads, loaded, compiled_patterns>>
    /\ UNCHANGED outsideStartup

load_patterns ==
    /\ pc = "load_patterns"
    /\ IF patterns_file.kind = "absent"
       \* FileNotFoundError: create_enhanced_patterns_file, load_patterns
       THEN \E bl \in ListsOf(developer_overrides.manual_blacklist),
               wl \in ListsOf(developer_overrides.manual_whitelist) :
               /\ patterns_file' = Json(DefaultStore(bl, wl))
               /\ loaded' = Loaded(DefaultStore(bl, wl))
               /\ developer_overrides' =
                     WithStoredOverrides(DefaultStore(bl, wl))
               /\ loads' = loads + 2
               /\ pc' = "compile_patterns"
       ELSE IF patterns_file.kind = "json"
       THEN /\ loaded' = Loaded(patterns_file.value)
            /\ developer_overrides' =
                  WithStoredOverrides(patterns_file.value)
            /\ loads' = loads + 1
            /\ pc' = "compile_patterns"
            /\ UNCHANGED patterns_file
       \* JSONDecodeError is raised again; config.get raises on a value
       \* that is no object
       ELSE /\ loads' = loads + 1
            /\ pc' = "raised"
            /\ UNCHANGED <<patterns_file, loaded, developer_overrides>>
    /\ UNCHANGED <<overrides_file, backups, now, result, runs>>
    /\ UNCHANGED <<payload_blacklist, headers_blacklist,
                   exact_match_blacklisted, value_based_blacklisted,
                   safe_fields, excluded_fields>>
    /\ UNCHANGED compiled_patterns
    /\ UNCHANGED outsideStartup

compile_patterns ==
    /\ pc = "compile_patterns"
    /\ compiled_patterns' = Compiled(loaded.value_patterns)
    /\ pc' = "ready"
    /\ UNCHANGED <<mergeVars, genVars, loads, loaded>>
    /\ UNCHANGED outsideStartup

\* save_developer_overrides: the lists of self.developer_overrides, list(set)
\* in any order, written to the developer overrides file
save_developer_overrides ==
    /\ pc = "ready"
    /\ \E bl \in ListsOf(developer_overrides.manual_blacklist),
          wl \in ListsOf(developer_overrides.manual_whitelist) :
          overrides_file' =
              Json([manual_blacklist |-> bl,
                    manual_whitelist |-> wl,
                    last_updated |-> now,
                    description |->
                        "Developer overrides for blacklist generation"])
    /\ UNCHANGED <<patterns_file, backups, now, result, runs>>
    /\ UNCHANGED <<genVars, startVars>>
    /\ UNCHANGED outsideStartup

\* the fields analysed after a start-up
StartedPaths == {"request.accountAge", "request.cvv", "headers.email"}

\* analyze_data on a generator that has started
AnalyzeStarted ==
    /\ pc = "ready"
    /\ Analysed < MaxFields
    /\ \E field_path \in StartedPaths, values \in SampleValues :
          analyze_field(field_path, values)

\* value_patterns with the regular expressions of some names broken
WithMalformed(names) ==
    [n \in DOMAIN value_pattern_sources |->
        IF n \in names THEN malformed_sources[n]
        ELSE value_pattern_sources[n]]

\* the pattern stores a generator finds: none, a broken one, or the default
\* store, as written or with broken regular expressions or merged lists
StartupStores ==
    {Absent, Invalid, NonDict}
    \cup {Json([config |-> "default", value_patterns |-> WithMalformed(m)]) :
            m \in {{}, {"cvv"}, {"cvv", "email"}}}
    \cup {Json(DefaultStore(<<"status">>, <<>>)),
          Json(DefaultStore(<<"email">>, <<"status">>))}

InitStartup ==
    /\ overrides_file \in
          {Absent, Invalid, NonDict} \cup {Json(o) : o \in OverrideContents}
    /\ patterns_file \in StartupStores
    /\ backups = <<>>
    /\ now = 0
    /\ result = "none"
    /\ runs = 0
    /\ GenIdle
    /\ pc = "load_developer_overrides"
    /\ loads = 0
    /\ loaded = NotLoaded
    /\ compiled_patterns = <<>>
    /\ OthersIdle

NextStartup ==
    \/ load_developer_overrides
    \/ load_patterns
    \/ compile_patterns
    \/ AnalyzeStarted
    \/ save_developer_overrides

SpecStartup == InitStartup /\ [][NextStartup]_vars

\* a start-up whose steps are taken as long as one is possible
FairStartup == SpecStartup /\ WF_vars(NextStartup)

----------------------------------------------------------------------------
(* The classifier on a generator started on the default store *)

\* the names a developer has put on the override lists
OverrideNames == {"email", "status"}

\* analyze_data: one analyze_field call per field of the data file
AnalyzeData ==
    /\ Analysed < MaxFields
    /\ \E field_path \in FieldPaths, values \in SampleValues :
          analyze_field(field_path, values)

\* the generator after start-up: overrides loaded, nothing analysed
InitClassify ==
    /\ developer_overrides \in
          [manual_blacklist : SUBSET OverrideNames,
           manual_whitelist : SUBSET OverrideNames]
    /\ payload_blacklist = {}
    /\ headers_blacklist = {}
    /\ exact_match_blacklisted = <<>>
    /\ value_based_blacklisted = <<>>
    /\ safe_fields = <<>>
    /\ excluded_fields = <<>>
    /\ overrides_file = Absent
    /\ patterns_file =
          Json(DefaultStore(Sorted(developer_overrides.manual_blacklist),
                            Sorted(developer_overrides.manual_whitelist)))
    /\ backups = <<>>
    /\ now = 0
    /\ result = "none"
    /\ runs = 0
    /\ pc = "ready"
    /\ loads = 1
    /\ loaded = Loaded(patterns_file.value)
    /\ compiled_patterns = Compiled(loaded.value_patterns)
    /\ OthersIdle

NextClassify == AnalyzeData

SpecClassify == InitClassify /\ [][NextClassify]_vars

----------------------------------------------------------------------------
(* generate_properties *)

\* the characters of a key in the order of their code points
CodePoints ==
    <<"0","1","2","3","4","5","6","7","8","9">> \o UpperChars \o <<"_">>
        \o LowerChars

CodePoint(c) == CHOOSE i \in 1..Len(CodePoints) : CodePoints[i] = c

\* a < b of two str
StrLess(a, b) ==
    \E i \in 1..(Min(Len(a), Len(b)) + 1) :
        /\ SubSeq(a, 1, i - 1) = SubSeq(b, 1, i - 1)
        /\ \/ i = Len(a) + 1 /\ i <= Len(b)
           \/ /\ i <= Len(a)
              /\ i <= Len(b)
              /\ CodePoint(Ch(a, i)) < CodePoint(Ch(b, i))

\* sorted(S) of a set of str
RECURSIVE sorted(_)
sorted(S) ==
    IF S = {} THEN <<>>
    ELSE LET first == CHOOSE x \in S : \A y \in S \ {x} : StrLess(x, y)
         IN  <<first>> \o sorted(S \ {first})

\* ','.join(seq)
RECURSIVE join(_)
join(seq) ==
    IF seq = <<>> THEN ""
    ELSE IF Len(seq) = 1 THEN seq[1]
    ELSE seq[1] \o "," \o join(Tail(seq))

\* the keys gathered from every blacklisted result, the value matches too
exact_match_keys_of_every_blacklist(categories) ==
    {exact_match_blacklisted[i].final_key :
        i \in {j \in 1..Len(exact_match_blacklisted) :
                  exact_match_blacklisted[j].category \in categories}}
    \cup {value_based_blacklisted[i].final_key :
            i \in {j \in 1..Len(value_based_blacklisted) :
                      value_based_blacklisted[j].category \in categories}}

\* exact_match_payload / exact_match_headers: the final keys of the results
\* of self.exact_match_blacklisted of the categories given
exact_match_keys(categories) ==
    {exact_match_blacklisted[i].final_key :
        i \in {j \in 1..Len(exact_match_blacklisted) :
                  exact_match_blacklisted[j].category \in categories}}

\* generate_properties: the counts of the heading and the two lines
generate_properties ==
    /\ pc = "ready"
    /\ properties_file' =
          [kind |-> "properties",
           total_fields |->
              Len(exact_match_blacklisted) + Len(value_based_blacklisted)
                  + Len(safe_fields),
           exact_match |-> Len(exact_match_blacklisted),
           value_based |-> Len(value_based_blacklisted),
           safe |-> Len(safe_fields),
           exclusions |-> Len(excluded_fields),
           payload_blacklist |->
              join(sorted(exact_match_keys({"request", "response"}))),
           headers_blacklist |->
              join(sorted(exact_match_keys({"headers"})))]
    /\ UNCHANGED <<mergeVars, genVars, startVars, batchVars, dismissVars,
                   solrVars, rtbVars>>

\* the fields of the data file
PropertiesPaths ==
    {"request.email", "request.Email", "headers.email",
     "request.accountAge", "request.status"}

PropertiesValues == {<<>>, <<"123">>, <<"a@b.com">>, <<"true", "False">>}

\* analyze_data before the properties file is written
AnalyzeForProperties ==
    /\ Analysed < MaxAnalysed
    /\ \E field_path \in PropertiesPaths, values \in PropertiesValues :
          analyze_field(field_path, values)

NextProperties ==
    \/ AnalyzeForProperties
    \/ generate_properties

SpecProperties == InitClassify /\ [][NextProperties]_vars

----------------------------------------------------------------------------
(* Claims about merge_overrides *)

\* C1: a successful merge_overrides leaves in the store's developer_overrides
\* manual_whitelist = stored whitelist UNION override-file whitelist and
\* manual_blacklist = (stored blacklist UNION override-file blacklist) minus
\* that merged whitelist; a stored name is lost only from the blacklist, and
\* only when the merged whitelist holds it.
C1_MergeIsUnionMinusWhitelist ==
    [][MergeSucceeds =>
        LET wl == StoredWhitelist(patterns_file) \cup FileWhitelist(overrides_file)
            bl == StoredBlacklist(patterns_file) \cup FileBlacklist(overrides_file)
        IN  /\ StoredWhitelist(patterns_file') = wl
            /\ StoredBlacklist(patterns_file') = bl \ wl
            /\ StoredWhitelist(patterns_file) \subseteq StoredWhitelist(patterns_file')
            /\ StoredBlacklist(patterns_file) \ wl \subseteq StoredBlacklist(patterns_file')
    ]_vars

\* a merge has moved a name of the stored blacklist to the whitelist and has
\* added a name to the stored blacklist
C1_Witness ==
    /\ result = "True"
    /\ \E t \in DOMAIN backups :
          /\ \E n \in StoredBlacklist(backups[t]) :
                n \in StoredWhitelist(patterns_file)
                /\ n \notin StoredBlacklist(patterns_file)
          /\ \E n \in StoredBlacklist(patterns_file) :
                n \notin StoredBlacklist(backups[t])

\* C2: after every successful merge_overrides, whatever the store and the
\* override files were, no name is in both the stored manual_blacklist and
\* the stored manual_whitelist.
C2_MergedListsDisjoint ==
    result = "True" =>
        StoredBlacklist(patterns_file) \cap StoredWhitelist(patterns_file) = {}

\* two merges have run on a store that held a name on both lists
C2_Witness ==
    /\ result = "True"
    /\ runs = 2
    /\ \E t \in DOMAIN backups :
          StoredBlacklist(backups[t]) \cap StoredWhitelist(backups[t]) # {}

\* C11: every successful merge_overrides leaves a backup file, named after
\* the current second, that holds the pattern store as it was before the
\* merge, and the pre-merge store of every earlier successful merge is still
\* held by some backup file.
C11_EveryPreMergeStoreKept ==
    [][MergeSucceeds =>
        /\ now \in DOMAIN backups'
        /\ backups'[now] = patterns_file
        /\ \A t \in DOMAIN backups :
              backups[t].kind = "json"
              => \E u \in DOMAIN backups' : backups'[u] = backups[t]
    ]_vars

\* C12: a successful merge_overrides leaves no override file; the override
\* file disappears only in a step that writes the merged pattern store and
\* returns True; and a run that finds no override file returns False and
\* leaves the pattern store as it was.
C12_OverridesConsumedOnce ==
    [][/\ MergeSucceeds => overrides_file' = Absent
       /\ (overrides_file # Absent /\ overrides_file' = Absent)
          => /\ MergeSucceeds
             /\ patterns_file.kind = "json"
             /\ patterns_file' =
                   Json(WithOverrides(patterns_file.value,
                          MergedOverrides(patterns_file.value,
                                          overrides_file.value)))
       /\ (runs' = runs + 1 /\ overrides_file = Absent)
          => /\ result' = "False"
             /\ patterns_file' = patterns_file
             /\ overrides_file' = Absent
    ]_vars

\* after a successful merge, a second run without a fresh override file has
\* returned False
C12_Witness ==
    /\ runs = 2
    /\ result = "False"
    /\ overrides_file = Absent
    /\ patterns_file.kind = "json"
    /\ "merged_from" \in DOMAIN CurrentOverrides(patterns_file.value)

\* C13: a merge_overrides run that finds no override file returns False and
\* changes no file: the pattern store is not rewritten and no backup is
\* created; a run that finds an override file but no pattern store returns
\* False as well and leaves the override file in place.
C13_MissingFileChangesNothing ==
    [][runs' = runs + 1 =>
        /\ overrides_file = Absent
              => /\ result' = "False"
                 /\ UNCHANGED <<overrides_file, patterns_file, backups>>
        /\ (overrides_file # Absent /\ patterns_file = Absent)
              => /\ result' = "False"
                 /\ UNCHANGED <<overrides_file, patterns_file, backups>>
    ]_vars

\* a run with an override file and no pattern store has returned False
C13_Witness ==
    /\ runs > 0
    /\ result = "False"
    /\ overrides_file.kind = "json"
    /\ patterns_file = Absent
    /\ backups = <<>>

\* the override sets a merge of the override object into the store leaves
MergedSets(store, overrides) ==
    LET merged == MergedOverrides(store, overrides)
    IN  <<ToSet(merged.manual_blacklist), ToSet(merged.manual_whitelist)>>

\* the override sets held by a pattern store file
StoredSets(file) == <<StoredBlacklist(file), StoredWhitelist(file)>>

\* C14: when the store is what a merge of the present override content into
\* a backed-up store left, merging that content again leaves the stored
\* manual_blacklist and manual_whitelist as they are.
C14_SecondMergeOfSameContent ==
    [][MergeSucceeds =>
        \A t \in DOMAIN backups :
            (/\ backups[t].kind = "json"
             /\ StoredSets(patterns_file) =
                    MergedSets(backups[t].value, overrides_file.value))
            => StoredSets(patterns_file') = StoredSets(patterns_file)
    ]_vars

\* two merges of one override content have run: the first changed the lists,
\* the second did not
C14_Witness ==
    /\ runs = 2
    /\ result = "True"
    /\ DOMAIN backups = {0, 1}
    /\ backups[0].kind = "json"
    /\ backups[1].kind = "json"
    /\ StoredSets(backups[1]) # StoredSets(backups[0])
    /\ StoredBlacklist(patterns_file) # {}
    /\ StoredWhitelist(patterns_file) # {}
    /\ \E o \in OverrideObjects :
          /\ MergedSets(backups[0].value, o) = StoredSets(backups[1])
          /\ MergedSets(backups[1].value, o) = StoredSets(patterns_file)

\* the store a merge of the override object into the store leaves
MergedStore(store, overrides) ==
    WithOverrides(store, MergedOverrides(store, overrides))

\* C15: when the store is what a merge of some override content A into a
\* backed-up store left, merging the present override file B into it leaves
\* the stored manual_blacklist and manual_whitelist that merging B first and
\* A second into the backed-up store leaves.
C15_MergeOrderIndependent ==
    [][MergeSucceeds =>
        \A t \in DOMAIN backups : \A A \in OverrideContents :
            (/\ backups[t].kind = "json"
             /\ StoredSets(patterns_file) = MergedSets(backups[t].value, A))
            => StoredSets(patterns_file') =
                  MergedSets(MergedStore(backups[t].value,
                                         overrides_file.value), A)
    ]_vars

\* an override file that blacklists a name and one that whitelists it have
\* been merged, one after the other
C15_Witness ==
    /\ runs = 2
    /\ result = "True"
    /\ DOMAIN backups = {0, 1}
    /\ backups[0].kind = "json"
    /\ backups[1].kind = "json"
    /\ \E A \in OverrideContents, B \in OverrideContents :
          /\ BlacklistOf(A) \cap WhitelistOf(B) # {}
          /\ BlacklistOf(A) \cap StoredBlacklist(backups[1]) # {}
          /\ MergedSets(backups[0].value, A) = StoredSets(backups[1])
          /\ MergedSets(backups[1].value, B) = StoredSets(patterns_file)
          /\ MergedSets(backups[0].value, B) # StoredSets(backups[1])

----------------------------------------------------------------------------
(* Claims about analyze_field *)

\* the analysis results filed as sensitive
Blacklisted ==
    Range(exact_match_blacklisted) \cup Range(value_based_blacklisted)

\* the analysis results of the fields that went through matching
Matched == Blacklisted \cup Range(safe_fields)

\* the result is in the list of its verdict and its key in the blacklist
\* of its category
FiledAsSensitive(r) ==
    /\ r \in Blacklisted
    /\ r.blacklisted
    /\ r.category = "headers" => r.final_key \in headers_blacklist
    /\ r.category \in {"request", "response"} =>
          r.final_key \in payload_blacklist

\* no key is on a blacklist without a result filed as sensitive
OnlySensitiveKeysListed ==
    /\ payload_blacklist \subseteq
          {r.final_key : r \in {b \in Blacklisted :
                                   b.category \in {"request", "response"}}}
    /\ headers_blacklist \subseteq
          {r.final_key : r \in {b \in Blacklisted : b.category = "headers"}}

\* C3: a field whose lowercased final key is in the manual whitelist is
\* never classified sensitive and never reaches keyword or value matching:
\* it is filed in excluded_fields only.
C3_WhitelistedKeyNeverMatched ==
    \A r \in Matched :
        Lower(r.final_key) \notin developer_overrides.manual_whitelist

\* C4: a field whose lowercased final key is in manual_blacklist and not in
\* manual_whitelist is classified sensitive with the single category
\* DEVELOPER_MANUAL, also when the key is on the exclusion list, and its key
\* is on the blacklist of its category.
C4_BlacklistedKeyIsManualOnly ==
    \A r \in Matched \cup Range(excluded_fields) :
        (/\ Lower(r.final_key) \in developer_overrides.manual_blacklist
         /\ Lower(r.final_key) \notin developer_overrides.manual_whitelist)
        => /\ FiledAsSensitive(r)
           /\ r.categories_detected = {"DEVELOPER_MANUAL"}

\* C5 as claimed: a field whose lowercased final key is in the exclusion
\* list is never classified sensitive.
C5_ExcludedKeyNeverSensitive ==
    \A r \in Blacklisted : Lower(r.final_key) \notin exclusions

\* C5: a field whose lowercased final key is in the exclusion list, and
\* whose final key as written is not in manual_blacklist or is in
\* manual_whitelist, is filed in excluded_fields whatever its values, and
\* leaves no key on a blacklist.
C5_ExcludedKeyUnlessManual ==
    /\ \A r \in Matched :
          Lower(r.final_key) \in exclusions
          => /\ r.final_key \in developer_overrides.manual_blacklist
             /\ r.final_key \notin developer_overrides.manual_whitelist
    /\ OnlySensitiveKeysListed

\* a key of the exclusion list, written with a capital and blacklisted in
\* lower case, was excluded although its values match value patterns
C5_Witness ==
    \E r \in Range(excluded_fields) :
        /\ r.reason = "Excluded - Common non-sensitive field"
        /\ r.final_key # Lower(r.final_key)
        /\ Lower(r.final_key) \in developer_overrides.manual_blacklist
        /\ ValueFacts[r.unique_values].value_analysis.categories # {}

\* the key ends in one of the classification suffixes
EndsInClassificationSuffix(final_key) ==
    \E suffix \in Range(classification_suffixes) :
        EndsWith(Lower(final_key), suffix)

\* C6 as claimed: a field whose final key ends in a classification suffix
\* and is not one of the sensitive exceptions is never classified sensitive,
\* keys ending in "code" without a business word included.
C6_SuffixKeyNeverSensitive ==
    \A r \in Blacklisted :
        ~(/\ EndsInClassificationSuffix(r.final_key)
          /\ Lower(r.final_key) \notin sensitive_code_exceptions)

\* the suffix rule as the code applies it: no sensitive exception inside the
\* key and either a suffix other than "code", or "code" after a business word
SuffixRuleApplies(final_key) ==
    LET k == Lower(final_key)
    IN  /\ \A exception \in sensitive_code_exceptions : ~Contains(k, exception)
        /\ \/ \E suffix \in Range(classification_suffixes) \ {"code"} :
                 EndsWith(k, suffix)
           \/ /\ EndsWith(k, "code")
              /\ \E word \in business_code_patterns : Contains(k, word)

\* C6: a field whose final key contains no sensitive exception and ends in
\* a classification suffix other than "code", or ends in "code" and contains
\* a business word, and whose key is not in manual_blacklist, is filed in
\* excluded_fields before any keyword or value matching, whatever its
\* values.
C6_SuffixRuleExcludes ==
    /\ \A r \in Matched :
          SuffixRuleApplies(r.final_key)
          => /\ r.final_key \in developer_overrides.manual_blacklist
             /\ r.final_key \notin developer_overrides.manual_whitelist
    /\ OnlySensitiveKeysListed

\* statusCode with the value "200" was excluded by the suffix rule, although
\* the value matches value patterns
C6_Witness ==
    \E r \in Range(excluded_fields) :
        /\ r.reason = "Excluded - Code/Type field"
        /\ r.final_key = "statusCode"
        /\ r.unique_values = <<"200">>
        /\ ValueFacts[r.unique_values].value_analysis.categories # {}

\* the value patterns that need a corroborating keyword in the field name
CorroboratedPatterns == {"cvv", "phone", "currency", "credit_card", "email"}

\* C7: a value matching only the CVV, phone, currency, credit-card or email
\* patterns makes no field sensitive whose name matches no keyword
\* (accountAge with "123"), while cvv with "123" is sensitive with PCI.
C7_ValueMatchNeedsKeyword ==
    /\ \A r \in Range(value_based_blacklisted) :
          ~(ValueFacts[r.unique_values].value_analysis.patterns_found
                \subseteq CorroboratedPatterns)
    /\ \A r \in Matched \cup Range(excluded_fields) :
          (r.final_key = "cvv" /\ r.unique_values = <<"123">>)
          => (r \in Blacklisted /\ "PCI" \in r.categories_detected)

\* C8: a field is excluded for its timestamp values only when its key is
\* not birth-related and matches no category keyword; a key that matches a
\* keyword is classified by it even when the values are timestamps.
C8_TimestampExclusionSparesKeywords ==
    \A r \in Range(excluded_fields) :
        r.reason = "Excluded - Contains timestamps/datetime"
        => /\ ~KeyFacts[r.final_key].is_personal_date_field
           /\ KeyFacts[r.final_key].matched = {}

\* every sample value is boolean-like
BooleanLike(values) ==
    \A i \in 1..Len(values) : Lower(Strip(values[i])) \in boolean_values

\* every sample value is a UUID
UuidLike(values) ==
    \A i \in 1..Len(values) : FullMatch(uuid_patterns, Strip(values[i]))

\* C9: a field with at least one sample value, all boolean-like or all
\* UUID-like, whose key is not in manual_blacklist is filed in
\* excluded_fields, whatever keyword its name matches; no field without
\* sample values is excluded by the boolean or the UUID rule.
C9_BooleanAndUuidBeforeMatching ==
    /\ \A r \in Matched :
          (r.unique_values # <<>>
           /\ (BooleanLike(r.unique_values) \/ UuidLike(r.unique_values)))
          => r.final_key \in developer_overrides.manual_blacklist
    /\ \A r \in Range(excluded_fields) :
          r.reason \in {"Excluded - Boolean field", "Excluded - UUID field"}
          => r.unique_values # <<>>
    /\ OnlySensitiveKeysListed

\* a field named by a keyword was excluded for its boolean values
C9_Witness ==
    \E r \in Range(excluded_fields) :
        /\ r.reason = "Excluded - Boolean field"
        /\ r.unique_values # <<>>
        /\ KeyFacts[r.final_key].matched # {}
        /\ r.final_key \notin payload_blacklist \cup headers_blacklist

\* C10: a field that passed the override and exclusion checks is
\* blacklisted exactly when the categories matched on its key and on its
\* values are not both empty; categories_detected is their union; there is
\* one reason per signal that matched, or the single no-match reason; and
\* the result is filed by its verdict.
C10_BlacklistedIffCategories ==
    \A r \in {m \in Matched : ~m.developer_manual} :
        LET key_categories == exact_keyword_match(r.field_path)
            value_categories ==
                ValueFacts[r.unique_values].value_analysis.categories
            signals == (IF key_categories # {} THEN 1 ELSE 0)
                       + (IF value_categories # {} THEN 1 ELSE 0)
        IN  /\ r.blacklisted <=> (key_categories \cup value_categories # {})
            /\ r.categories_detected = key_categories \cup value_categories
            /\ r.blacklisted => Len(r.reasons) = signals
            /\ ~r.blacklisted =>
                  r.reasons =
                      <<"No exact matches or sensitive patterns detected">>
            /\ r.blacklisted <=> r \in Blacklisted
            /\ r.blacklisted => FiledAsSensitive(r)

\* a field was blacklisted on a key match and a value match together
C10_Witness ==
    \E r \in Range(exact_match_blacklisted) :
        /\ ~r.developer_manual
        /\ r.value_based
        /\ Len(r.reasons) = 2
        /\ Cardinality(r.categories_detected) > 1

----------------------------------------------------------------------------
(* Claims about the start-up of the generator *)

\* C16: when load_patterns finds no pattern file, it writes the default
\* pattern file and loads it in a second and last call: the file is there
\* with the default patterns, these are loaded, the file's
\* developer_overrides hold the names read from the overrides file, and the
\* start-up goes on to the end.
C16_MissingStoreCreatedAndLoaded ==
    /\ [][(pc = "load_patterns" /\ patterns_file = Absent) =>
            /\ pc' = "compile_patterns"
            /\ loads' = 2
            /\ patterns_file'.kind = "json"
            /\ Loaded(patterns_file'.value) =
                  [config |-> "default",
                   value_patterns |-> value_pattern_sources]
            /\ loaded' = Loaded(patterns_file'.value)
            /\ StoredSets(patterns_file') =
                  <<FileBlacklist(overrides_file),
                    FileWhitelist(overrides_file)>>
         ]_vars
    /\ [](loads <= 2)
    /\ (pc = "load_patterns" /\ patterns_file = Absent) ~> (pc = "ready")

\* a generator started without a pattern file and with override lists has
\* finished its start-up on the file it wrote
C16_Witness ==
    /\ pc = "ready"
    /\ loads = 2
    /\ FileBlacklist(overrides_file) # {}
    /\ FileWhitelist(overrides_file) # {}
    /\ StoredBlacklist(patterns_file) = FileBlacklist(overrides_file)
    /\ DOMAIN compiled_patterns = DOMAIN value_patterns

\* the value patterns of the loaded store whose regular expression compiles
ValidPatterns ==
    {n \in DOMAIN loaded.value_patterns :
        loaded.value_patterns[n] \notin
            {malformed_sources[m] : m \in DOMAIN malformed_sources}}

\* the categories of the valid patterns that match one of the values
ValidValueCategories(values) ==
    UNION {pattern_mappings[n] :
              n \in {m \in ValidPatterns \cap DOMAIN pattern_mappings :
                        \E i \in 1..Len(values) :
                            FullMatch(value_patterns[m], Strip(values[i]))}}

\* C17: a value pattern of the store whose regular expression is malformed
\* does not stop the start-up: compile_patterns skips it and compiles every
\* other pattern, and the value categories of a field that reaches value
\* matching are those of the valid patterns its values match, never those
\* of a skipped pattern.
C17_MalformedPatternSkipped ==
    /\ pc \in {"compile_patterns", "ready"} => patterns_file.kind = "json"
    /\ pc = "raised" => patterns_file.kind \in {"invalid", "nondict"}
    /\ pc = "ready" =>
          /\ DOMAIN compiled_patterns = ValidPatterns
          /\ \A r \in {m \in Matched : ~m.developer_manual} :
                /\ r.value_based <=>
                      ValidValueCategories(r.unique_values) # {}
                /\ r.categories_detected =
                      exact_keyword_match(r.field_path)
                          \cup ValidValueCategories(r.unique_values)

\* on a store whose cvv pattern is malformed, a field with the value "123"
\* was blacklisted by the phone and currency patterns alone
C17_Witness ==
    /\ pc = "ready"
    /\ "cvv" \in DOMAIN loaded.value_patterns
    /\ "cvv" \notin DOMAIN compiled_patterns
    /\ \E r \in Range(value_based_blacklisted) :
          /\ r.unique_values = <<"123">>
          /\ r.categories_detected = {"SPI", "RPI"}

----------------------------------------------------------------------------
(* admin_app_at/app.py: process_accounts_batch *)

batch_size == 100

AccountNumbers == {"A", "B", "C"}

\* the account_number column of the uploaded file: distinct accounts
AccountLists ==
    UNION {{a \in [1..n -> AccountNumbers] :
                \A i, j \in 1..n : a[i] = a[j] => i = j} :
           n \in 0..MaxAccounts}

\* accounts[i:i + batch_size] of the loop step the call is at: the slice of
\* the first future not collected yet
Batch ==
    LET i == (collected \div batch_size) * batch_size
    IN  (i + 1)..Min(i + batch_size, Len(accounts))

\* save_to_db: the INSERT commits, or sqlite3 raises and no row is written
save_to_db(k, status) ==
    Append(state_changes, [account_number |-> accounts[k], status |-> status])

\* process_single_account of the k-th account on a worker thread.  The
\* mocked call sets status 'success'; when save_to_db raises the handler
\* saves a 'failed' row, and when that save raises too the future holds
\* the exception.  The executor runs the futures of a slice to their end
\* even when the collecting loop has raised.
process_single_account(k) ==
    /\ batch_status \in {"running", "raised"}
    /\ k \in Batch
    /\ work[k] = "pending"
    /\ \/ /\ state_changes' = save_to_db(k, "success")
          /\ work' = [work EXCEPT ![k] = "success"]
       \/ /\ state_changes' = save_to_db(k, "failed")
          /\ work' = [work EXCEPT ![k] = "failed"]
       \/ /\ state_changes' = state_changes
          /\ work' = [work EXCEPT ![k] = "raised"]
    /\ UNCHANGED <<accounts, results, collected, batch_status>>
    /\ UNCHANGED <<mergeVars, genVars, startVars, properties_file,
                   dismissVars, solrVars, rtbVars>>

\* future.result() of the next future, in the order of submission: it
\* waits for the future, counts its status, or raises what the future raised
CollectResult ==
    /\ batch_status = "running"
    /\ collected < Len(accounts)
    /\ work[collected + 1] # "pending"
    /\ IF work[collected + 1] = "raised"
       THEN /\ batch_status' = "raised"
            /\ UNCHANGED <<results, collected>>
       ELSE /\ results' =
                  [results EXCEPT ![work[collected + 1]] = @ + 1]
            /\ collected' = collected + 1
            /\ UNCHANGED batch_status
    /\ UNCHANGED <<accounts, work, state_changes>>
    /\ UNCHANGED <<mergeVars, genVars, startVars, properties_file,
                   dismissVars, solrVars, rtbVars>>

\* return results, after the last slice
ReturnResults ==
    /\ batch_status = "running"
    /\ collected = Len(accounts)
    /\ batch_status' = "returned"
    /\ UNCHANGED <<accounts, work, state_changes, results, collected>>
    /\ UNCHANGED <<mergeVars, genVars, startVars, properties_file,
                   dismissVars, solrVars, rtbVars>>

InitBatch ==
    /\ accounts \in AccountLists
    /\ work = [k \in 1..Len(accounts) |-> "pending"]
    /\ state_changes = <<>>
    /\ results = [success |-> 0, failed |-> 0]
    /\ collected = 0
    /\ batch_status = "running"
    /\ MergeIdle
    /\ GenIdle
    /\ NotStarted
    /\ properties_file = Absent
    /\ DismissIdle
    /\ SolrIdle
    /\ RtbIdle

NextBatch ==
    \/ \E k \in 1..MaxAccounts : process_single_account(k)
    \/ CollectResult
    \/ ReturnResults

SpecBatch == InitBatch /\ [][NextBatch]_vars

----------------------------------------------------------------------------
(* Claims about process_accounts_batch *)

\* the rows of state_changes written for the k-th account
RowsOf(k) ==
    {r \in 1..Len(state_changes) :
        state_changes[r].account_number = accounts[k]}

\* C18: a failure while processing one account is a 'failed' outcome of
\* that account only: the call never ends by raising, and when it has
\* returned, success + failed is the number of accounts submitted and every
\* account has exactly one row in state_changes
C18_FailureIsOneFailedOutcome ==
    /\ batch_status # "raised"
    /\ batch_status = "returned" =>
          /\ results.success + results.failed = Len(accounts)
          /\ \A k \in 1..Len(accounts) : Cardinality(RowsOf(k)) = 1

----------------------------------------------------------------------------
(* github_secret_dismiss.py: dismiss_alerts_from_urls *)

\* a literal text of a pattern
Lit(text) == [i \in 1..Len(text) |-> One({Ch(text, i)})]

\* [^/], over the characters of the URLs considered
NotSlash ==
    Letters \cup Digits \cup Whitespace \cup {":", ".", "-", "_", "?", "#"}

\* the pattern with (\d*) for (\d+)
alert_pattern_without_number ==
    {Lit("github.com/") \o <<AtLeast(NotSlash, 1)>> \o Lit("/")
        \o <<AtLeast(NotSlash, 1)>> \o Lit("/security/secret-scanning/")
        \o <<AtLeast(Digits, 0)>>}

\* github\.com/([^/]+)/([^/]+)/security/secret-scanning/(\d+)
alert_pattern ==
    {Lit("github.com/") \o <<AtLeast(NotSlash, 1)>> \o Lit("/")
        \o <<AtLeast(NotSlash, 1)>> \o Lit("/security/secret-scanning/")
        \o <<AtLeast(Digits, 1)>>}

\* the text of s before its first '/', and the text after it
BeforeSlash(s) ==
    SubSeq(s, 1, (CHOOSE i \in 1..(Len(s) + 1) :
                     /\ i = Len(s) + 1 \/ Ch(s, i) = "/"
                     /\ \A j \in 1..(i - 1) : Ch(s, j) # "/") - 1)

AfterSlash(s) == From(s, Len(BeforeSlash(s)) + 1)

\* the longest prefix of s made of digits: what the greedy (\d+) takes
RECURSIVE LeadingDigits(_)
LeadingDigits(s) ==
    IF s # "" /\ Head(s) \in Digits
    THEN Head(s) \o LeadingDigits(Tail(s))
    ELSE ""

\* int() of a text of digits
RECURSIVE IntOf(_)
IntOf(digits) ==
    IF digits = "" THEN 0
    ELSE 10 * IntOf(SubSeq(digits, 1, Len(digits) - 1))
            + DigitValue(Ch(digits, Len(digits)))

\* the None parse_alert_url returns when re.search finds no match
NoAlert == [match |-> None]

\* parse_alert_url: re.search finds the leftmost match; the groups are the
\* two path segments after github.com/ and the digits after the literal
parse_alert_url(url) ==
    IF ~Search(alert_pattern, url) THEN NoAlert
    ELSE LET start == CHOOSE p \in 0..Len(url) :
                         /\ PrefixMatch(alert_pattern, From(url, p))
                         /\ \A q \in 0..(p - 1) :
                               ~PrefixMatch(alert_pattern, From(url, q))
             path == From(url, start + Len("github.com/"))
             rest == AfterSlash(AfterSlash(path))
         IN  [owner |-> BeforeSlash(path),
              repo |-> BeforeSlash(AfterSlash(path)),
              alert_number |->
                  IntOf(LeadingDigits(
                          From(rest, Len("security/secret-scanning/"))))]

\* what the PATCH request ends with: a response with a status code, or an
\* exception of requests
Responses ==
    {[status_code |-> c] : c \in {200, 404, 422, 500}}
        \cup {[raised |-> "RequestException"]}

\* dismiss_alert, after its one PATCH request: True on status 200 only
dismiss_alert(response) ==
    "status_code" \in DOMAIN response /\ response.status_code = 200

\* the lines handed to dismiss_alerts_from_urls
SampleUrls ==
    {"",
     " \n",
     "https://github.com/o/r/security/secret-scanning/7",
     " https://github.com/acme/api/security/secret-scanning/012\n",
     "https://github.com/o/r/security/secret-scanning/",
     "https://github.com/o/r/issues/7"}

UrlLists == UNION {[1..n -> SampleUrls] : n \in 0..MaxUrls}

\* parse_alert_url of the stripped lines
Parsed == [u \in SampleUrls |-> parse_alert_url(Strip(u))]

\* one turn of the loop of dismiss_alerts_from_urls, on urls[idx]
dismiss_alerts_from_urls ==
    /\ idx <= Len(urls)
    /\ idx' = idx + 1
    /\ LET url == Strip(urls[idx])
           alert_info == Parsed[urls[idx]]
       IN  IF url = ""
           THEN UNCHANGED <<successful, failed, requests_made>>
           ELSE IF alert_info = NoAlert
           THEN /\ failed' = failed + 1
                /\ UNCHANGED <<successful, requests_made>>
           ELSE \E response \in Responses :
                   /\ requests_made' =
                          Append(requests_made,
                                 [i |-> idx,
                                  owner |-> alert_info.owner,
                                  repo |-> alert_info.repo,
                                  alert_number |-> alert_info.alert_number,
                                  response |-> response])
                   /\ IF dismiss_alert(response)
                      THEN successful' = successful + 1
                              /\ UNCHANGED failed
                      ELSE failed' = failed + 1
                              /\ UNCHANGED successful
    /\ UNCHANGED urls
    /\ UNCHANGED <<mergeVars, genVars, startVars, properties_file,
                   batchVars, solrVars, rtbVars>>

InitDismiss ==
    /\ urls \in UrlLists
    /\ idx = 1
    /\ successful = 0
    /\ failed = 0
    /\ requests_made = <<>>
    /\ MergeIdle
    /\ GenIdle
    /\ NotStarted
    /\ properties_file = Absent
    /\ BatchIdle
    /\ SolrIdle
    /\ RtbIdle

NextDismiss == dismiss_alerts_from_urls

SpecDismiss == InitDismiss /\ [][NextDismiss]_vars

\* the loop is sequential and each turn ends: the request returns or
\* raises, and time.sleep returns
FairDismiss == SpecDismiss /\ WF_vars(NextDismiss)

----------------------------------------------------------------------------
(* Claims about dismiss_alerts_from_urls *)

\* the lines that hold an alert URL of the expected format
\* https://github.com/{owner}/{repo}/security/secret-scanning/{alert_number}
AlertUrls ==
    {"https://github.com/o/r/security/secret-scanning/7",
     " https://github.com/acme/api/security/secret-scanning/012\n"}

BlankUrls == {"", " \n"}

\* the PATCH requests sent for the i-th URL
RequestsFor(i) ==
    {r \in 1..Len(requests_made) : requests_made[r].i = i}

\* C19: of the URLs the loop has passed, each had at most one PATCH request
\* and none when it is not an alert URL; every non-blank one was counted
\* once, as successful when its request was answered 200 and as failed
\* otherwise; and the loop reaches the end of the list whatever the URLs
\* and the responses were
C19_OneRequestOneCountPerUrl ==
    /\ [](/\ \A i \in 1..(idx - 1) :
               /\ Cardinality(RequestsFor(i)) <= 1
               /\ urls[i] \notin AlertUrls => RequestsFor(i) = {}
          /\ successful + failed =
                 Cardinality({i \in 1..(idx - 1) : urls[i] \notin BlankUrls})
          /\ successful =
                 Cardinality({i \in 1..(idx - 1) :
                                 \E r \in RequestsFor(i) :
                                    requests_made[r].response =
                                        [status_code |-> 200]})
          /\ \A i \in idx..Len(urls) : RequestsFor(i) = {})
    /\ <>(idx = Len(urls) + 1)

\* a list with an invalid URL, then a URL whose request raised, then a URL
\* whose request was answered 200, was worked through to its end
C19_Witness ==
    /\ Len(urls) = 3
    /\ idx = 4
    /\ urls[1] = "https://github.com/o/r/issues/7"
    /\ Len(requests_made) = 2
    /\ requests_made[1].i = 2
    /\ requests_made[1].response = [raised |-> "RequestException"]
    /\ requests_made[2].i = 3
    /\ requests_made[2].response = [status_code |-> 200]
    /\ successful = 1
    /\ failed = 2

----------------------------------------------------------------------------
(* Claims about generate_properties *)

\* the final keys of the fields of the categories given that analyze_field
\* blacklisted by a key match or by the manual blacklist
KeyOrManualKeys(categories) ==
    {r.final_key :
        r \in {m \in Blacklisted :
                  /\ m.key_based \/ m.developer_manual
                  /\ m.category \in categories}}

\* the fields that were whitelisted, excluded, safe or blacklisted by a
\* value match only
FieldsLeftOut ==
    Range(excluded_fields) \cup Range(safe_fields)
        \cup {m \in Blacklisted : ~m.key_based /\ ~m.developer_manual}

\* key is one of the comma-separated keys of a line
InLine(key, line) ==
    \/ line = key
    \/ StartsWith(line, key \o ",")
    \/ EndsWith(line, "," \o key)
    \/ Contains(line, "," \o key \o ",")

\* the two lines of the file a generate_properties call has just written
\* are the sorted comma-joined keys of the key-match and manual fields
LinesWritten ==
    /\ properties_file'.payload_blacklist =
          join(sorted(KeyOrManualKeys({"request", "response"})))
    /\ properties_file'.headers_blacklist =
          join(sorted(KeyOrManualKeys({"headers"})))

\* C20 as stated: generate_properties writes the two lines from the fields
\* blacklisted by key match or manual override, and the final key of a
\* field that was whitelisted, excluded, safe or blacklisted only by a
\* value match is in neither line
C20_LeftOutKeyInNeitherLine ==
    [][generate_properties =>
          /\ LinesWritten
          /\ \A r \in FieldsLeftOut :
                /\ ~InLine(r.final_key, properties_file'.payload_blacklist)
                /\ ~InLine(r.final_key, properties_file'.headers_blacklist)
      ]_vars

\* C20, amended: generate_properties writes the two lines from the fields
\* blacklisted by key match or manual override; the final key of a field
\* that was whitelisted, excluded, safe or blacklisted only by a value
\* match is in a line only when another field with the same final key, of
\* the category of that line, was blacklisted by key match or manual
\* override
C20_LeftOutFieldAddsNoKey ==
    [][generate_properties =>
          /\ LinesWritten
          /\ \A r \in FieldsLeftOut :
                /\ InLine(r.final_key, properties_file'.payload_blacklist)
                      => \E m \in Range(exact_match_blacklisted) :
                            /\ m.final_key = r.final_key
                            /\ m.category \in {"request", "response"}
                /\ InLine(r.final_key, properties_file'.headers_blacklist)
                      => \E m \in Range(exact_match_blacklisted) :
                            /\ m.final_key = r.final_key
                            /\ m.category = "headers"
      ]_vars

\* a file written after a key match on request.email and a value match on
\* request.accountAge: email is in the payload line, accountAge in none
C20_Witness ==
    /\ properties_file # Absent
    /\ properties_file.payload_blacklist = "email"
    /\ properties_file.headers_blacklist = ""
    /\ properties_file.value_based = 1
    /\ \E r \in Range(value_based_blacklisted) :
          r.final_key = "accountAge"
    /\ \E r \in Range(exact_match_blacklisted) :
          r.field_path = "request.email"

----------------------------------------------------------------------------
(* Further claims about merge_overrides *)

\* C29: a merge_overrides run on two existing files of which the override
\* file or the pattern store is not valid JSON returns False and leaves the
\* pattern store, the override file and the backups as they were; and no
\* run that returns False removes or changes the override file it found
C29_FailedMergeLeavesFiles ==
    [][runs' = runs + 1 =>
          /\ (/\ overrides_file.kind # "absent"
               /\ patterns_file.kind # "absent"
               /\ \/ overrides_file.kind = "invalid"
                  \/ patterns_file.kind = "invalid")
                => /\ result' = "False"
                   /\ UNCHANGED <<patterns_file, overrides_file, backups>>
          /\ result' = "False" => overrides_file' = overrides_file
      ]_vars

\* the last run allowed found a valid override file and a pattern store
\* that is not valid JSON: it returned False and there is no backup
C29_Witness ==
    /\ runs = MaxRuns
    /\ result = "False"
    /\ overrides_file.kind = "json"
    /\ patterns_file = Invalid
    /\ backups = <<>>


\* C28: a successful merge_overrides run keeps every name of the stored
\* manual_whitelist in it and stores no whitelisted name in the
\* manual_blacklist, whatever the override file lists in manual_blacklist
C28_StoredWhitelistOnlyGrows ==
    [][MergeSucceeds =>
          /\ StoredWhitelist(patterns_file) \subseteq
                 StoredWhitelist(patterns_file')
          /\ StoredWhitelist(patterns_file')
                 \cap StoredBlacklist(patterns_file') = {}
      ]_vars

\* after a successful merge that whitelisted email, a new override file
\* lists email in manual_blacklist only, and a further run is possible
C28_Witness ==
    /\ runs = 1
    /\ result = "True"
    /\ "email" \in StoredWhitelist(patterns_file)
    /\ "email" \notin StoredBlacklist(patterns_file)
    /\ "email" \in FileBlacklist(overrides_file)
    /\ "email" \notin FileWhitelist(overrides_file)

----------------------------------------------------------------------------
(* Claims about the developer overrides of the generator *)

\* C23: when the generator starts with a developer overrides file and a
\* pattern store, the developer_overrides that load_developer_overrides
\* writes back into the store are the union of the sets of the file and the
\* sets the store held, and so are the overrides in use once the patterns
\* are loaded
C23_StoredOverrideNamesKept ==
    [][(/\ pc = "load_developer_overrides"
        /\ pc' = "load_patterns"
        /\ overrides_file.kind = "json"
        /\ patterns_file.kind = "json")
          => /\ StoredBlacklist(patterns_file') =
                    FileBlacklist(overrides_file)
                        \cup StoredBlacklist(patterns_file)
             /\ StoredWhitelist(patterns_file') =
                    FileWhitelist(overrides_file)
                        \cup StoredWhitelist(patterns_file)
      ]_vars

\* C26: once load_developer_overrides and load_patterns have run, no name
\* is in both self.developer_overrides lists, and no pattern store or
\* overrides file the generator writes has a name in both of its lists
C26_NoNameInBothLists ==
    /\ [](pc \in {"compile_patterns", "ready"} =>
             developer_overrides.manual_blacklist
                 \cap developer_overrides.manual_whitelist = {})
    /\ [][patterns_file' # patterns_file =>
             StoredBlacklist(patterns_file')
                 \cap StoredWhitelist(patterns_file') = {}]_vars
    /\ [][overrides_file' # overrides_file =>
             FileBlacklist(overrides_file')
                 \cap FileWhitelist(overrides_file') = {}]_vars

----------------------------------------------------------------------------
(* Further claims about analyze_field *)

\* the categories with a keyword the field part of a compound key matches
FieldPartCategories(final_key) ==
    LET e == KeyFacts[final_key].entity
    IN  IF e.is_compound
        THEN {UpperOf(c) : c \in {d \in DOMAIN compiled_exact_patterns :
                                     CategorySearch(d, e.field_name)}}
        ELSE {}

\* C25: a field that reaches keyword matching and whose final key is an
\* entity prefix followed by a capitalised keyword, or by '_' and a
\* keyword, is an exact match for the categories of that keyword
C25_EntityPrefixedKeyMatches ==
    \A r \in {m \in Matched : ~m.developer_manual} :
        /\ Lower(r.final_key) \notin developer_overrides.manual_whitelist
        /\ FieldPartCategories(r.final_key) # {}
        => /\ r.key_based
           /\ FieldPartCategories(r.final_key) \subseteq r.categories_detected


\* the record a step has appended to the list, when it appended one
AppendedTo(before, after, r) == after = Append(before, r)

\* the records a step has appended, over the four lists
AppendedRecords ==
    {l[Len(l)] : l \in {m \in {exact_match_blacklisted',
                                value_based_blacklisted',
                                safe_fields', excluded_fields'} :
                            m # <<>>}}

\* C27: a step that changes the generator's lists or blacklists appends
\* exactly one record, of a request., response. or headers. path, to exactly
\* one of the four lists and leaves the other three as they were; the final
\* key joins headers_blacklist (headers. paths) or payload_blacklist
\* (request., response. paths) exactly when the record is blacklisted, and
\* the other blacklist is unchanged; no other path leaves a record
C27_OneRecordPerCall ==
    [][~UNCHANGED genVars =>
          \E r \in AppendedRecords :
             /\ Cardinality(
                    {i \in 1..4 :
                        <<exact_match_blacklisted, value_based_blacklisted,
                          safe_fields, excluded_fields>>[i] #
                        <<exact_match_blacklisted', value_based_blacklisted',
                          safe_fields', excluded_fields'>>[i]}) = 1
             /\ \/ AppendedTo(exact_match_blacklisted,
                               exact_match_blacklisted', r)
                \/ AppendedTo(value_based_blacklisted,
                               value_based_blacklisted', r)
                \/ AppendedTo(safe_fields, safe_fields', r)
                \/ AppendedTo(excluded_fields, excluded_fields', r)
             /\ \/ StartsWith(r.field_path, "request.")
                \/ StartsWith(r.field_path, "response.")
                \/ StartsWith(r.field_path, "headers.")
             /\ LET blacklisted ==
                        "blacklisted" \in DOMAIN r /\ r.blacklisted
                    added == IF blacklisted THEN {r.final_key} ELSE {}
                IN  IF StartsWith(r.field_path, "headers.")
                    THEN /\ headers_blacklist' = headers_blacklist \cup added
                         /\ payload_blacklist' = payload_blacklist
                    ELSE /\ payload_blacklist' = payload_blacklist \cup added
                         /\ headers_blacklist' = headers_blacklist
             /\ developer_overrides' = developer_overrides
      ]_vars

\* an analyze_field call on headers.email has left one exact-match record
\* and the key in headers_blacklist only
C27_Witness ==
    /\ Analysed = 1
    /\ \E r \in Range(exact_match_blacklisted) :
          r.field_path = "headers.email" /\ r.blacklisted
    /\ headers_blacklist = {"email"}
    /\ payload_blacklist = {}

----------------------------------------------------------------------------
(* Solr_Query_Tracking/solr_monitor.py: monitor_query *)

\* json.dumps(data) and json.loads(text): a text wraps the value it encodes
json_dumps(data) == [json |-> data]

json_loads(text) == text.json

\* hashlib.sha256(json.dumps(data, sort_keys=True).encode()).hexdigest():
\* one digest per encoded value, digests of different values differ
calculate_hash(data) == [sha256 |-> json_dumps(data)]

\* the query parameters the monitor is run with
Queries == {[q |-> "*:*"], [q |-> "status:active"]}

\* what requests.get(...).json() returns for a query, or the
\* RequestException execute_solr_query re-raises
SolrResponses ==
    {[response |-> [numFound |-> 1, docs |-> <<"a">>]],
     [response |-> [numFound |-> 2, docs |-> <<"a", "b">>]],
     [response |-> [numFound |-> 2, docs |-> <<"b", "a">>]],
     [response |-> [docs |-> <<"a">>]],
     [accounts |-> <<"a", "b">>],
     [error |-> "undefined field"]}

SolrOutcomes == SolrResponses \cup {[raised |-> "RequestException"]}

extract_account_count(response) ==
    IF "response" \in DOMAIN response
       /\ "numFound" \in DOMAIN response.response
    THEN response.response.numFound
    ELSE IF "response" \in DOMAIN response
            /\ "docs" \in DOMAIN response.response
         THEN Len(response.response.docs)
         ELSE IF "accounts" \in DOMAIN response
              THEN Len(response.accounts)
              ELSE 0

\* what DeepDiff(..., ignore_order=True) compares: lists as the set of
\* their items
IgnoreOrder(response) ==
    IF "response" \in DOMAIN response
    THEN IF "numFound" \in DOMAIN response.response
         THEN [numFound |-> response.response.numFound,
               docs |-> Range(response.response.docs)]
         ELSE [docs |-> Range(response.response.docs)]
    ELSE IF "accounts" \in DOMAIN response
         THEN [accounts |-> Range(response.accounts)]
         ELSE [error |-> response.error]

SameShape(a, b) == DOMAIN IgnoreOrder(a) = DOMAIN IgnoreOrder(b)

DeepDiff(previous_result, current_result) ==
    \/ ~SameShape(previous_result, current_result)
    \/ \E f \in DOMAIN IgnoreOrder(previous_result) :
          IgnoreOrder(previous_result)[f] # IgnoreOrder(current_result)[f]

compare_results(current_result, previous_result_str) ==
    [has_differences |->
        DeepDiff(json_loads(previous_result_str), current_result)]

\* the row INSERT INTO query_results adds; id is the AUTOINCREMENT key
store_result(rows, query_result) ==
    Append(rows, [id |-> Len(rows) + 1,
                  timestamp |-> query_result.timestamp,
                  query_hash |-> query_result.query_hash,
                  result_hash |-> query_result.result_hash,
                  account_count |-> query_result.account_count,
                  raw_response |-> query_result.raw_response,
                  query_params |-> json_dumps(query_result.query_params)])

\* the rows SELECT ... WHERE query_hash = ? ORDER BY timestamp DESC LIMIT 1
\* may return: the rows of the query with the latest timestamp.  No row
\* stands for (None, None).
get_previous_result(rows, query_hash) ==
    {r \in Range(rows) :
        /\ r.query_hash = query_hash
        /\ \A o \in Range(rows) :
              o.query_hash = query_hash => o.timestamp <= r.timestamp}

store_comparison(rows, query_hash, previous_result_id, current_result_id, comparison, account_count_diff) ==
    Append(rows, [id |-> Len(rows) + 1,
                  query_hash |-> query_hash,
                  previous_result_id |-> previous_result_id,
                  current_result_id |-> current_result_id,
                  account_count_diff |-> account_count_diff,
                  is_different |-> comparison.has_differences])

\* one execution of monitor_query with a notification callback
monitor_query ==
    /\ Len(query_results) < MaxChecks
    /\ \E query_params \in Queries, outcome \in SolrOutcomes :
          IF "raised" \in DOMAIN outcome
          THEN \* except Exception: logged, nothing stored
               UNCHANGED solrVars
          ELSE LET current_response == outcome
                   query_hash == calculate_hash(query_params)
                   current_result ==
                       [timestamp |-> now,
                        query_hash |-> query_hash,
                        result_hash |-> calculate_hash(current_response),
                        account_count |->
                            extract_account_count(current_response),
                        raw_response |-> json_dumps(current_response),
                        query_params |-> query_params]
                   stored == store_result(query_results, current_result)
                   current_result_id == Len(stored)
               IN  /\ query_results' = stored
                   /\ IF get_previous_result(stored, query_hash) = {}
                      THEN UNCHANGED <<comparisons, notifications>>
                      ELSE \E previous_result \in
                                  get_previous_result(stored, query_hash) :
                             LET comparison ==
                                     compare_results(
                                         current_response,
                                         previous_result.raw_response)
                                 account_count_diff ==
                                     current_result.account_count
                                     - previous_result.account_count
                             IN  /\ comparisons' =
                                        store_comparison(
                                            comparisons, query_hash,
                                            previous_result.id,
                                            current_result_id, comparison,
                                            account_count_diff)
                                 /\ notifications' =
                                        IF comparison.has_differences
                                        THEN Append(notifications,
                                                 [current |->
                                                      current_result_id,
                                                  previous |->
                                                      previous_result.id])
                                        ELSE notifications
    /\ UNCHANGED <<mergeVars, genVars, startVars, properties_file, batchVars,
                   dismissVars, rtbVars>>

InitSolr ==
    /\ MergeIdle
    /\ GenIdle
    /\ NotStarted
    /\ properties_file = Absent
    /\ BatchIdle
    /\ DismissIdle
    /\ SolrIdle
    /\ RtbIdle

NextSolr ==
    \/ monitor_query
    \/ Tick

SpecSolr == InitSolr /\ [][NextSolr]_vars

----------------------------------------------------------------------------
(* Claims about monitor_query *)

\* the rows of a query stored before a step
EarlierRows(query_hash) ==
    {r \in Range(query_results) : r.query_hash = query_hash}

\* the row a step of monitor_query has stored
NewRow == query_results'[Len(query_results')]

\* C21: when monitor_query runs for a query that has an earlier stored
\* result and the new response differs from the earlier one, the comparison
\* row it stores has is_different true, names the earlier row (not the row
\* just inserted) as previous_result_id and carries the new count minus the
\* earlier count, and the notification callback is invoked.
C21_ComparesWithEarlierResult ==
    [][(/\ Len(query_results') = Len(query_results) + 1
        /\ \E e \in EarlierRows(NewRow.query_hash) :
              DeepDiff(json_loads(e.raw_response),
                       json_loads(NewRow.raw_response)))
       => /\ Len(comparisons') = Len(comparisons) + 1
          /\ Len(notifications') = Len(notifications) + 1
          /\ LET c == comparisons'[Len(comparisons')]
             IN  /\ c.is_different
                 /\ c.current_result_id = NewRow.id
                 /\ \E e \in EarlierRows(NewRow.query_hash) :
                       /\ c.previous_result_id = e.id
                       /\ c.account_count_diff =
                              NewRow.account_count - e.account_count
      ]_vars

\* C22: the first execution of a query stores the result, finds no previous
\* result, stores no comparison row and sends no notification.
C22_FirstExecutionStoresNoComparison ==
    [][(/\ Len(query_results') = Len(query_results) + 1
        /\ EarlierRows(NewRow.query_hash) = {})
       => /\ comparisons' = comparisons
          /\ notifications' = notifications
      ]_vars

----------------------------------------------------------------------------
(* admin_app_at/app.py: the RTB first-bill runs.  rtb_runs and rtb_accounts *)
(* hold the committed rows, which is what a SELECT of another connection    *)
(* reads.  A run with NULL counts is a record without the count fields.     *)

\* datetime.now().date(), the clock counting seconds
DateOf(t) == t \div 86400

\* f"RTB_{datetime.now().strftime('%Y%m%d_%H%M%S')}": the day and the
\* second of the day
RunIdAt(t) == <<"RTB", DateOf(t), t % 86400>>

\* what fetch_presto_accounts and fetch_cosmos_accounts may return; the
\* empty list is what they return after an exception
PrestoFetches == {<<>>, <<"PRESTO_000001", "PRESTO_000002">>}

CosmosFetches == {<<"PRESTO_000001">>,
                  <<"PRESTO_000001", "COSMOS_EXTRA_001">>}

RunIds(runs_table) == {r.run_id : r \in runs_table}

\* SELECT ... FROM rtb_runs WHERE run_id = ?
RunRows(runs_table, run_id) == {r \in runs_table : r.run_id = run_id}

\* INSERT INTO rtb_runs (run_id, run_date, status) VALUES (?, ?,
\* 'processing'), committed
InsertRun(runs_table, run_id, today) ==
    runs_table \cup
        {[run_id |-> run_id, run_date |-> today, status |-> "processing"]}

\* the thread started on process_rtb_comparison(run_id, today)
StartedThread(run_id) == [run_id |-> run_id, pc |-> "fetch"]

\* a connection holds the write lock of the database from its UPDATE to
\* its commit
NoOpenTransaction == \A t \in rtb_threads : t.pc # "commit"

matching(t) == t.presto_set \cap t.cosmos_set

only_in_presto(t) == t.presto_set \ t.cosmos_set

only_in_cosmos(t) == t.cosmos_set \ t.presto_set

\* UPDATE rtb_runs SET ..., status = 'completed' WHERE run_id = ?
UpdateRun(runs_table, t) ==
    {IF r.run_id = t.run_id
     THEN [run_id |-> r.run_id, run_date |-> r.run_date,
           presto_count |-> Cardinality(t.presto_set),
           cosmos_count |-> Cardinality(t.cosmos_set),
           matching_count |-> Cardinality(matching(t)),
           mismatch_count |-> Cardinality(only_in_presto(t))
                              + Cardinality(only_in_cosmos(t)),
           status |-> "completed"]
     ELSE r : r \in runs_table}

\* the three INSERT INTO rtb_accounts loops
InsertedAccounts(t) ==
    SetToBag({[run_id |-> t.run_id, account_number |-> a,
               source |-> "both", match_status |-> "matched"] :
                  a \in matching(t)}
             \cup
             {[run_id |-> t.run_id, account_number |-> a,
               source |-> "presto_only", match_status |-> "mismatched"] :
                  a \in only_in_presto(t)}
             \cup
             {[run_id |-> t.run_id, account_number |-> a,
               source |-> "cosmos_only", match_status |-> "mismatched"] :
                  a \in only_in_cosmos(t)})

\* the rows other connections read while a connection has executed
\* statements it has not committed: sqlite3 opens a transaction before the
\* UPDATE, and the only commit is the one at line 725
VisibleBeforeCommit_of_autocommit(committed, uncommitted) == uncommitted

VisibleBeforeCommit(committed, uncommitted) == committed

\* rtb_check_and_run up to the fetchone of the SELECT on run_date
check_existing_run(r) ==
    /\ requests[r].pc = "idle"
    /\ LET today == DateOf(now)
           existing == {run \in rtb_runs : run.run_date = today}
       IN  IF existing # {}
           THEN \E existing_run \in existing :
                   requests' = [requests EXCEPT ![r] =
                       [pc |-> "returned", run_exists |-> TRUE,
                        run_id |-> existing_run.run_id,
                        status |-> existing_run.status]]
           ELSE requests' = [requests EXCEPT ![r] =
                       [pc |-> "create", today |-> today]]
    /\ UNCHANGED <<rtb_runs, rtb_accounts, rtb_threads, reader>>
    /\ UNCHANGED <<mergeVars, genVars, startVars, properties_file, batchVars,
                   dismissVars, solrVars>>

\* rtb_check_and_run from "Create new run" on: the INSERT, the commit and
\* the start of the thread.  The INSERT waits for the write lock; a run_id
\* already stored violates UNIQUE and the request ends in an error.
create_run(r) ==
    /\ requests[r].pc = "create"
    /\ NoOpenTransaction
    /\ LET run_id == RunIdAt(now)
       IN  IF run_id \in RunIds(rtb_runs)
           THEN /\ requests' = [requests EXCEPT ![r] =
                       [pc |-> "error", raised |-> "IntegrityError"]]
                /\ UNCHANGED <<rtb_runs, rtb_threads>>
           ELSE /\ rtb_runs' = InsertRun(rtb_runs, run_id, requests[r].today)
                /\ rtb_threads' = rtb_threads \cup {StartedThread(run_id)}
                /\ requests' = [requests EXCEPT ![r] =
                       [pc |-> "returned", run_exists |-> FALSE,
                        run_id |-> run_id, status |-> "processing"]]
    /\ UNCHANGED <<rtb_accounts, reader>>
    /\ UNCHANGED <<mergeVars, genVars, startVars, properties_file, batchVars,
                   dismissVars, solrVars>>

rtb_check_and_run ==
    \E r \in Requests : check_existing_run(r) \/ create_run(r)

\* rtb_trigger_run: one INSERT and its commit, then the thread
rtb_trigger_run ==
    /\ NoOpenTransaction
    /\ RunIdAt(now) \notin RunIds(rtb_runs)
    /\ rtb_runs' = InsertRun(rtb_runs, RunIdAt(now), DateOf(now))
    /\ rtb_threads' = rtb_threads \cup {StartedThread(RunIdAt(now))}
    /\ UNCHANGED <<rtb_accounts, requests, reader>>
    /\ UNCHANGED <<mergeVars, genVars, startVars, properties_file, batchVars,
                   dismissVars, solrVars>>

\* process_rtb_comparison up to the sets of line 685
fetch_accounts ==
    \E t \in rtb_threads :
        /\ t.pc = "fetch"
        /\ \E presto_accounts \in PrestoFetches,
              cosmos_accounts \in CosmosFetches :
              rtb_threads' = (rtb_threads \ {t}) \cup
                  {[run_id |-> t.run_id, pc |-> "update",
                    presto_set |-> Range(presto_accounts),
                    cosmos_set |-> Range(cosmos_accounts)]}
        /\ UNCHANGED <<rtb_runs, rtb_accounts, requests, reader>>
        /\ UNCHANGED <<mergeVars, genVars, startVars, properties_file,
                       batchVars, dismissVars, solrVars>>

\* process_rtb_comparison: the UPDATE, which takes the write lock
update_run_statistics ==
    \E t \in rtb_threads :
        /\ t.pc = "update"
        /\ NoOpenTransaction
        /\ rtb_runs' = VisibleBeforeCommit(rtb_runs, UpdateRun(rtb_runs, t))
        /\ rtb_threads' = (rtb_threads \ {t}) \cup
               {[t EXCEPT !.pc = "commit"]}
        /\ UNCHANGED <<rtb_accounts, requests, reader>>
        /\ UNCHANGED <<mergeVars, genVars, startVars, properties_file,
                       batchVars, dismissVars, solrVars>>

\* process_rtb_comparison: the INSERTs and conn.commit()
insert_accounts_and_commit ==
    \E t \in rtb_threads :
        /\ t.pc = "commit"
        /\ rtb_runs' = UpdateRun(rtb_runs, t)
        /\ rtb_accounts' = rtb_accounts (+) InsertedAccounts(t)
        /\ rtb_threads' = (rtb_threads \ {t}) \cup
               {[t EXCEPT !.pc = "done"]}
        /\ UNCHANGED <<requests, reader>>
        /\ UNCHANGED <<mergeVars, genVars, startVars, properties_file,
                       batchVars, dismissVars, solrVars>>

\* SELECT account_number, source ... WHERE run_id = ? AND source = ?
AccountRows(accounts_table, run_id, source) ==
    {row \in BagToSet(accounts_table) :
        row.run_id = run_id /\ row.source = source}

\* rtb_get_run_status of a stored run: one SELECT.  The reading client
\* sends its requests one after the other.
rtb_get_run_status ==
    /\ reader.pc \in {"idle", "returned"}
    /\ \E run_info \in rtb_runs :
          reader' = [pc |-> "returned", handler |-> "rtb_get_run_status",
                     run_info |-> run_info]
    /\ UNCHANGED <<rtb_runs, rtb_accounts, requests, rtb_threads>>
    /\ UNCHANGED <<mergeVars, genVars, startVars, properties_file, batchVars,
                   dismissVars, solrVars>>

\* rtb_get_mismatch_details of a stored run: its three SELECTs, one a step
rtb_get_mismatch_details ==
    /\ \/ /\ reader.pc \in {"idle", "returned"}
          /\ \E run_info \in rtb_runs :
                reader' = [pc |-> "presto_only",
                           handler |-> "rtb_get_mismatch_details",
                           run_info |-> run_info]
       \/ /\ reader.pc = "presto_only"
          /\ reader' = [pc |-> "cosmos_only",
                        handler |-> reader.handler,
                        run_info |-> reader.run_info,
                        presto_only |->
                            AccountRows(rtb_accounts,
                                        reader.run_info.run_id,
                                        "presto_only")]
       \/ /\ reader.pc = "cosmos_only"
          /\ reader' = [pc |-> "returned",
                        handler |-> reader.handler,
                        run_info |-> reader.run_info,
                        presto_only |-> reader.presto_only,
                        cosmos_only |->
                            AccountRows(rtb_accounts,
                                        reader.run_info.run_id,
                                        "cosmos_only")]
    /\ UNCHANGED <<rtb_runs, rtb_accounts, requests, rtb_threads>>
    /\ UNCHANGED <<mergeVars, genVars, startVars, properties_file, batchVars,
                   dismissVars, solrVars>>

InitRtb ==
    /\ MergeIdle
    /\ GenIdle
    /\ NotStarted
    /\ properties_file = Absent
    /\ BatchIdle
    /\ DismissIdle
    /\ SolrIdle
    /\ RtbIdle

NextRtb ==
    \/ rtb_check_and_run
    \/ rtb_trigger_run
    \/ fetch_accounts
    \/ update_run_statistics
    \/ insert_accounts_and_commit
    \/ rtb_get_run_status
    \/ rtb_get_mismatch_details
    \/ Tick

SpecRtb == InitRtb /\ [][NextRtb]_vars

----------------------------------------------------------------------------
(* Claims about the RTB runs *)

\* the requests of check_and_run that inserted a run dated d
CreatedBy(d) ==
    {r \in Requests :
        /\ requests[r].pc = "returned"
        /\ ~requests[r].run_exists
        /\ \E run \in RunRows(rtb_runs, requests[r].run_id) :
              run.run_date = d}

\* C24: however concurrent check_and_run requests interleave, check_and_run
\* creates at most one run per calendar day: a request that finds a run for
\* today returns it, and only a request that finds none inserts one.
C24_OneRunPerDay ==
    \A run \in rtb_runs : Cardinality(CreatedBy(run.run_date)) <= 1

\* the thread that compares for a run
ThreadOf(run) == CHOOSE t \in rtb_threads : t.run_id = run.run_id

\* the row an account of a run is recorded as
ExpectedRow(t, a) ==
    [run_id |-> t.run_id, account_number |-> a,
     source |-> IF a \in t.presto_set /\ a \in t.cosmos_set THEN "both"
                ELSE IF a \in t.presto_set THEN "presto_only"
                ELSE "cosmos_only",
     match_status |-> IF a \in t.presto_set /\ a \in t.cosmos_set
                      THEN "matched" ELSE "mismatched"]

\* the stored rows of a run are one row for each account of either source
RowsComplete(run) ==
    LET t == ThreadOf(run)
        rows == {row \in BagToSet(rtb_accounts) : row.run_id = run.run_id}
    IN  /\ rows = {ExpectedRow(t, a) : a \in t.presto_set \cup t.cosmos_set}
        /\ \A row \in rows : CopiesIn(row, rtb_accounts) = 1
        /\ Cardinality(rows) = run.matching_count + run.mismatch_count

\* a reader that has seen a run completed has read all the rows it asked for
ReaderSawAllRows ==
    ("run_info" \in DOMAIN reader /\ reader.run_info.status = "completed")
    => /\ reader.run_info \in rtb_runs
       /\ "presto_only" \in DOMAIN reader
          => /\ reader.presto_only =
                    AccountRows(rtb_accounts, reader.run_info.run_id,
                                "presto_only")
             /\ Cardinality(reader.presto_only) =
                    Cardinality(only_in_presto(ThreadOf(reader.run_info)))
       /\ "cosmos_only" \in DOMAIN reader
          => /\ reader.cosmos_only =
                    AccountRows(rtb_accounts, reader.run_info.run_id,
                                "cosmos_only")
             /\ Cardinality(reader.cosmos_only) =
                    Cardinality(only_in_cosmos(ThreadOf(reader.run_info)))

\* C30: the status of a run only moves from 'processing' to 'completed',
\* and together with the account rows of the run: whenever a run is stored
\* as completed, and whenever a reader has seen it completed, all its rows
\* are stored and read, matching_count + mismatch_count of them, one for
\* each distinct account of either source, as 'both', 'presto_only' or
\* 'cosmos_only'.
C30_CompletedWithAllRows ==
    /\ [](\A run \in rtb_runs :
             /\ run.status \in {"processing", "completed"}
             /\ run.status = "completed" => RowsComplete(run))
    /\ []ReaderSawAllRows
    /\ [][\A run \in rtb_runs :
             \E after \in RunRows(rtb_runs', run.run_id) :
                \/ after = run
                \/ /\ run.status = "processing"
                   /\ after.status = "completed"
                   /\ BagCardinality(rtb_accounts') =
                          BagCardinality(rtb_accounts)
                          + after.matching_count + after.mismatch_count
         ]_vars

\* a reader of the mismatch details has seen a run completed with a row of
\* either kind while a later run is still processing
C30_Witness ==
    /\ reader.pc = "returned"
    /\ reader.handler = "rtb_get_mismatch_details"
    /\ reader.run_info.status = "completed"
    /\ reader.presto_only # {}
    /\ reader.cosmos_only # {}
    /\ \E run \in rtb_runs : run.status = "processing"

====
